---------------------------- MODULE Spec2Model ----------------------------
(***************************************************************************)
(* Model of awards_bot.py: the GitHub-backed JSON document store           *)
(* (GitHubJSONStore, AwardsBot.reload_data / save_data) and the run        *)
(* lifecycle handlers of AwardsBot that operate on the document.           *)
(*                                                                         *)
(* Conventions.  A Python value that may be None is a sequence of length   *)
(* 0 (None) or 1 (the value).  A version token ("sha") is a positive       *)
(* number, NoSha standing for None.  The remote content endpoint is the    *)
(* environment of the program: it compares the token of a PUT with the     *)
(* token of the stored blob and hands out a token it never used before.    *)
(***************************************************************************)
EXTENDS Integers, Sequences, FiniteSets, TLC

VARIABLES
    data,       \* AwardsBot.data: the in-memory document
    sha,        \* AwardsBot.sha: the token of the last load/save
    remote,     \* the blob held by the content endpoint
    remoteSha,  \* the token of that blob
    nextTok,    \* the next token the endpoint hands out
    pc,         \* per task: where its save_data call stands
    attempt,    \* per task: iteration of save_data's for-loop (1..6)
    req,        \* per task: the PUT request in flight (body and sha)
    resp,       \* per task: the response in flight
    hist,       \* per task: history of the current save_data call
    extCount,   \* number of commits made by other writers so far
    calls,      \* number of save_data calls made so far
    ui,         \* the views (chooser, select, wizard, controls) shown
    cache,      \* AwardsBot.cache: the multiple-choice builder's entries
    now,        \* now_utc(), in whole seconds
    late,       \* now_utc() > the active run's deadline
    nextRun,    \* the number of the next run to be created
    fin         \* per task: the finalizing handler suspended at an await

storeVars == <<data, sha, remote, remoteSha, nextTok>>
taskVars == <<pc, attempt, req, resp, hist>>
envVars == <<extCount, calls>>
lifeVars == <<ui, cache, now, late, nextRun, fin>>
vars == <<data, sha, remote, remoteSha, nextTok, pc, attempt, req, resp,
          hist, extCount, calls, ui, cache, now, late, nextRun, fin>>

---------------------------------------------------------------------------
(* Bounds of the model *)

\* commits by writers other than this process in one behaviour
MaxExt == 6

\* save_data calls in one behaviour
MaxCalls == 1

\* runs created in one behaviour
MaxRuns == 1

\* questions of a run
MaxQuestions == 2

\* seconds the clock advances in one behaviour
MaxTime == 1

\* choices held by the multiple-choice builder
MaxChoices == 2

(* Program constants *)

\* save_data: for _ in range(6)
MaxAttempts == 6

\* The handler invocations of the process that may be in flight at once.
Tasks == {1, 2}

None == << >>
Some(x) == << x >>
NoSha == 0

---------------------------------------------------------------------------
(* Documents *)

\* A default document of another version
default_data_v0 ==
    [version |-> 0,
     settings |-> [allowed_role_ids |-> << >>],
     active |-> None,
     archive |-> << >>]

\* default_data()
default_data ==
    [version |-> 1,
     settings |-> [allowed_role_ids |-> << >>],
     active |-> None,
     archive |-> << >>]

\* The documents of the store specification (the ones it starts from, the
\* ones a handler leaves in memory, the ones other writers commit): the
\* default document and one that differs from it in every top-level field.
StoreDocs ==
    {[version |-> 2, settings |-> [allowed_role_ids |-> <<1>>],
      active |-> Some(1), archive |-> <<1>>],
     default_data}

\* What the endpoint holds: no object (404), an object with empty content,
\* or an object whose content is a JSON document.
Blob(state, doc) == [state |-> state, doc |-> doc]
MissingBlob == Blob("missing", default_data)
EmptyBlob == Blob("empty", default_data)

NoResp == [status |-> "none", state |-> "missing", doc |-> default_data, sha |-> NoSha]
NoReq == [doc |-> default_data, sha |-> NoSha]
NoHist ==
    [intent |-> default_data, conflicts |-> 0, accepted |-> FALSE,
     putDoc |-> default_data, putReqSha |-> NoSha, putOldSha |-> NoSha,
     putNewSha |-> NoSha, putOldState |-> "missing",
     base |-> default_data, why |-> "none"]

---------------------------------------------------------------------------
(* GitHubJSONStore *)

\* GitHubJSONStore.load: the (document, sha) pair it returns for a GET that
\* found blob b with token s.  404 gives ({}, None); empty content gives
\* ({}, sha).  The empty dict is reported as state "empty".
load(b, s) ==
    IF b.state = "missing"
    THEN [status |-> "ok", state |-> "empty", doc |-> default_data, sha |-> NoSha]
    ELSE IF b.state = "empty"
    THEN [status |-> "ok", state |-> "empty", doc |-> default_data, sha |-> s]
    ELSE [status |-> "ok", state |-> "json", doc |-> b.doc, sha |-> s]

\* The status the endpoint answers a PUT with: the token of the request has
\* to be the token of the stored blob; a request without token creates the
\* object and is refused (422) when the object exists.
PutStatuses(b, s, q) ==
    IF b.state = "missing"
    THEN IF q.sha = NoSha THEN {"ok"} ELSE {"conflict", "error"}
    ELSE IF q.sha = NoSha THEN {"error"}
    ELSE IF q.sha = s THEN {"ok"}
    ELSE {"conflict"}

\* GitHubJSONStore.save, its return value: the sha of the response
\* (payload.content.sha or payload.sha or sha or "").
SavedShaKeepOld(r, old) == old

SavedSha(r, old) == IF r.sha # NoSha THEN r.sha ELSE old

---------------------------------------------------------------------------
(* AwardsBot.save_data *)

\* The conflict merge of save_data (lines 706-712): the re-fetched document
\* (the default document when it is empty) with settings, active and
\* archive taken from the in-memory document.
Latest(r) == IF r.state = "empty" THEN default_data ELSE r.doc

\* The conflict branch that takes the document fetched as it is
MergeLatestWins(latest, mem) == latest

\* The merge with the archive of the document fetched
MergeRemoteArchiveWins(latest, mem) ==
    [latest EXCEPT !.settings = mem.settings, !.active = mem.active]

MergeRemoteActiveWins(latest, mem) ==
    [latest EXCEPT !.settings = mem.settings, !.archive = mem.archive]

Merge(latest, mem) ==
    [latest EXCEPT !.settings = mem.settings,
                   !.active = mem.active,
                   !.archive = mem.archive]

\* The for-loop of save_data is over once iteration a ended in a conflict.
LoopOverNever(a) == FALSE

LoopOver(a) == a >= MaxAttempts

\* A handler changes the document in memory and calls save_data, which
\* builds the body of its first PUT from self.data and self.sha.
SaveBegin(t) ==
    /\ pc[t] = "idle"
    /\ calls < MaxCalls
    /\ calls' = calls + 1
    /\ \E s \in StoreDocs :
          data' = [data EXCEPT !.settings = s.settings,
                               !.active = s.active,
                               !.archive = s.archive]
    /\ pc' = [pc EXCEPT ![t] = "put"]
    /\ attempt' = [attempt EXCEPT ![t] = 1]
    /\ req' = [req EXCEPT ![t] = [doc |-> data', sha |-> sha]]
    /\ hist' = [hist EXCEPT ![t] = [NoHist EXCEPT !.intent = data']]
    /\ UNCHANGED <<sha, remote, remoteSha, nextTok, resp, extCount>>
    /\ UNCHANGED lifeVars

\* The endpoint handles the PUT of task t.
PutServe(t) ==
    /\ pc[t] = "put"
    /\ \E st \in PutStatuses(remote, remoteSha, req[t]) \cup {"error"} :
          IF st = "ok"
          THEN /\ remote' = Blob("json", req[t].doc)
               /\ remoteSha' = nextTok
               /\ nextTok' = nextTok + 1
               /\ resp' = [resp EXCEPT ![t] = [NoResp EXCEPT !.status = "ok", !.sha = nextTok]]
               /\ hist' = [hist EXCEPT ![t] =
                             [@ EXCEPT !.accepted = TRUE,
                                       !.putDoc = req[t].doc,
                                       !.putReqSha = req[t].sha,
                                       !.putOldSha = remoteSha,
                                       !.putOldState = remote.state,
                                       !.putNewSha = nextTok]]
          ELSE /\ resp' = [resp EXCEPT ![t] = [NoResp EXCEPT !.status = st]]
               /\ UNCHANGED <<remote, remoteSha, nextTok, hist>>
    /\ pc' = [pc EXCEPT ![t] = "putresp"]
    /\ UNCHANGED <<data, sha, attempt, req, envVars>>
    /\ UNCHANGED lifeVars

\* save_data gets the answer to its PUT: return with the new sha, re-fetch
\* after a 409, raise any other failure.
PutRecv(t) ==
    /\ pc[t] = "putresp"
    /\ \/ /\ resp[t].status = "ok"
          /\ sha' = SavedSha(resp[t], req[t].sha)
          /\ pc' = [pc EXCEPT ![t] = "returned"]
          /\ UNCHANGED hist
       \/ /\ resp[t].status = "conflict"
          /\ pc' = [pc EXCEPT ![t] = "get"]
          /\ hist' = [hist EXCEPT ![t].conflicts = @ + 1]
          /\ UNCHANGED sha
       \/ /\ resp[t].status = "error"
          /\ pc' = [pc EXCEPT ![t] = "raised"]
          /\ hist' = [hist EXCEPT ![t].why = "store_error"]
          /\ UNCHANGED sha
    /\ resp' = [resp EXCEPT ![t] = NoResp]
    /\ UNCHANGED <<data, remote, remoteSha, nextTok, attempt, req, envVars>>
    /\ UNCHANGED lifeVars

\* The endpoint handles the GET of the conflict branch.
GetServe(t) ==
    /\ pc[t] = "get"
    /\ \/ resp' = [resp EXCEPT ![t] = load(remote, remoteSha)]
       \/ resp' = [resp EXCEPT ![t] = [NoResp EXCEPT !.status = "error"]]
    /\ pc' = [pc EXCEPT ![t] = "getresp"]
    /\ UNCHANGED <<storeVars, attempt, req, hist, envVars>>
    /\ UNCHANGED lifeVars

\* save_data gets the re-fetched document, merges, and goes round the loop:
\* the next PUT, or RemoteStoreError after the sixth conflict.
GetRecv(t) ==
    /\ pc[t] = "getresp"
    /\ \/ /\ resp[t].status = "error"
          /\ pc' = [pc EXCEPT ![t] = "raised"]
          /\ hist' = [hist EXCEPT ![t].why = "store_error"]
          /\ UNCHANGED <<data, sha, attempt, req>>
       \/ /\ resp[t].status = "ok"
          /\ data' = Merge(Latest(resp[t]), data)
          /\ sha' = resp[t].sha
          /\ IF LoopOver(attempt[t])
             THEN /\ pc' = [pc EXCEPT ![t] = "raised"]
                  /\ hist' = [hist EXCEPT ![t].why = "exhausted",
                                          ![t].base = Latest(resp[t])]
                  /\ UNCHANGED <<attempt, req>>
             ELSE /\ pc' = [pc EXCEPT ![t] = "put"]
                  /\ attempt' = [attempt EXCEPT ![t] = @ + 1]
                  /\ req' = [req EXCEPT ![t] = [doc |-> data', sha |-> sha']]
                  /\ hist' = [hist EXCEPT ![t].base = Latest(resp[t])]
    /\ resp' = [resp EXCEPT ![t] = NoResp]
    /\ UNCHANGED <<remote, remoteSha, nextTok, envVars>>
    /\ UNCHANGED lifeVars

\* The handler that called save_data is over (it returned or raised).
SaveEnd(t) ==
    /\ pc[t] \in {"returned", "raised"}
    /\ pc' = [pc EXCEPT ![t] = "idle"]
    /\ attempt' = [attempt EXCEPT ![t] = 0]
    /\ req' = [req EXCEPT ![t] = NoReq]
    /\ hist' = [hist EXCEPT ![t] = NoHist]
    /\ UNCHANGED <<storeVars, resp, envVars>>
    /\ UNCHANGED lifeVars

---------------------------------------------------------------------------
(* Other writers of the remote object *)

\* Another writer commits a document or an empty object.
ExtWrite ==
    /\ extCount < MaxExt
    /\ \E b \in {Blob("json", d) : d \in StoreDocs} \cup {EmptyBlob} :
          remote' = b
    /\ remoteSha' = nextTok
    /\ nextTok' = nextTok + 1
    /\ extCount' = extCount + 1
    /\ UNCHANGED <<data, sha, taskVars, calls>>
    /\ UNCHANGED lifeVars

\* Another writer deletes the object.
ExtDelete ==
    /\ extCount < MaxExt
    /\ remote.state # "missing"
    /\ remote' = MissingBlob
    /\ remoteSha' = NoSha
    /\ extCount' = extCount + 1
    /\ UNCHANGED <<data, sha, nextTok, taskVars, calls>>
    /\ UNCHANGED lifeVars

---------------------------------------------------------------------------
(* The interaction state of the bot *)

\* The views that were shown and can still be used: the reveal-mode chooser
\* of reveal (per run id), the max-selection select of
\* create_question_user_select (per run id), the fill wizard (per member
\* and run id) and the reveal controls (per run id).
\* and, of the management views, the manage panel (per actor it was shown
\* to), the suggestion review (per run and suggestion id) and the
\* suggestion modal (per member and run id).  results: the result blocks
\* sent to the results channel so far (per run and position in
\* per_question, from 1).
NoUi ==
    [chooser |-> {}, select |-> {}, wizard |-> {}, controls |-> {},
     panel |-> {}, review |-> {}, suggest |-> {}, results |-> {}]

\* cache_get(interaction, "mc_qtext"), "mc_choices" and "sug_idx" of the
\* manager
NoCache == [mc_qtext |-> FALSE, mc_choices |-> << >>, sug_idx |-> 0]

\* A handler that is not suspended: it holds no run.  again: one of the
\* results the handler sent had been sent to the channel before.
NoFin == [at |-> "idle", rid |-> 0, obj |-> None, again |-> FALSE]

InitLife ==
    /\ ui = NoUi
    /\ cache = NoCache
    /\ now = 0
    /\ late = FALSE
    /\ nextRun = 1
    /\ fin = [t \in Tasks |-> NoFin]

---------------------------------------------------------------------------
(* The run document *)

\* The members of the guild: they fill in the awards and are nominated.
Members == {"m1"}

\* The choices a manager types for a multiple-choice question, and the
\* answers a member types for a short-text question.
ChoiceTexts == {"a"}
AnswerTexts == {"t"}

\* The options of the "Max selections" select of create_question_user_select
\* are 1, 2, 3 and 5; the model offers the first two.
MaxOptions == {1, 2}

\* iso(now_utc()) where the document keeps an instant that no decision
\* reads: set, the instant itself left out.  The deadline is the number of
\* days it was set to, its instant left out; the clock's side of
\* now_utc() > deadline is the variable late.
Stamp == Some("t")

\* new_run: a run in setup.  The id is the number of the run (guild id and
\* creation second in the code: the runs of a guild are created in
\* different seconds).  name, created_by and created_at are left out.
new_run(rid) ==
    [id |-> rid,
     status |-> "setup_suggestions",
     channels |-> [announcement |-> 1, suggestions |-> None,
                   results |-> None, modlog |-> None],
     public_messages |-> [suggestions_message_id |-> None,
                          submissions_message_id |-> None,
                          chaos_message_id |-> None],
     deadline |-> None,
     suggestions |-> << >>,
     questions |-> << >>,
     submissions |-> << >>,
     reveal |-> [mode |-> None, started_at |-> None, current_index |-> 0,
                 computed_results |-> None]]

\* A question as the three creation handlers build it (text left out).
Question(qid, type, max, choices, order) ==
    [id |-> qid, type |-> type, max |-> max, required |-> TRUE,
     choices |-> choices, enabled |-> TRUE, order |-> order]

\* An answer: isinstance(ans, list), and its element(s).
Answer(isList, v) == [list |-> isList, v |-> v]

\* A submission; the dict run["submissions"] is the sequence of its items
\* in insertion order, answers the dict qid -> answer.
NewSubmission(uid) ==
    [uid |-> uid, answers |-> << >>, submitted_at |-> None]

Range(f) == {f[i] : i \in DOMAIN f}

\* dict.get on a sequence of records with a key field
HasKey(items, field, k) == \E i \in DOMAIN items : items[i][field] = k
IndexOf(items, field, k) ==
    CHOOSE i \in DOMAIN items :
        /\ items[i][field] = k
        /\ \A j \in DOMAIN items : items[j][field] = k => i <= j

\* answers.get(qid): the answers dict is a sequence of <<qid, answer>>
HasAnswer(answers, qid) == \E i \in DOMAIN answers : answers[i][1] = qid
GetAnswer(answers, qid) ==
    answers[CHOOSE i \in DOMAIN answers : answers[i][1] = qid][2]
\* answers[qid] = value: replaces in place or appends; a dict holds one
\* item per key
SetAnswer(answers, qid, value) ==
    IF HasAnswer(answers, qid)
    THEN [i \in DOMAIN answers |->
            IF answers[i][1] = qid THEN <<qid, value>> ELSE answers[i]]
    ELSE Append(answers, <<qid, value>>)

\* sorted(items, key=...): a stable insertion sort of a sequence of
\* [key, item] pairs by ascending key; equal keys keep their order.
RECURSIVE InsertSorted(_, _)
InsertSorted(x, sorted) ==
    IF sorted = << >> THEN <<x>>
    ELSE IF x.key < Head(sorted).key
         THEN <<x>> \o sorted
         ELSE <<Head(sorted)>> \o InsertSorted(x, Tail(sorted))

RECURSIVE StableSort(_)
StableSort(seq) ==
    IF seq = << >> THEN << >>
    ELSE InsertSorted(seq[Len(seq)],
                      StableSort(SubSeq(seq, 1, Len(seq) - 1)))

Items(keyed) == [i \in DOMAIN keyed |-> keyed[i].item]

\* sorted(run["questions"], key=order)
SortedQuestions(run) ==
    Items(StableSort([i \in DOMAIN run.questions |->
        [key |-> run.questions[i].order, item |-> run.questions[i]]]))

\* for i, q in enumerate(qs): q["order"] = i
Renumber(qs) == [i \in DOMAIN qs |-> [qs[i] EXCEPT !.order = i - 1]]

\* clamp(n, lo, hi) = max(lo, min(hi, n))
Min2(a, b) == IF a <= b THEN a ELSE b
Max2(a, b) == IF a >= b THEN a ELSE b
clamp(n, lo, hi) == Max2(lo, Min2(hi, n))

---------------------------------------------------------------------------
(* compute_results *)

DEFAULT_TOP_N == 3
DEFAULT_SUBMISSION_DAYS == 7

\* str(ans): a key is the sequence of its parts; a member id or a text is
\* one part, the text of a list is its elements between brackets.
Str(ans) == IF ans.list THEN <<"[">> \o ans.v \o <<"]">> ELSE ans.v

\* QVotes with a list-valued answer taken as one key
QVotes_list_as_key(q, ans) ==
    IF q.type \in {"user_select", "multi_choice"} THEN <<Str(ans)>>
    ELSE << >>

\* The keys one answer adds to the tally of question q, in order.
QVotes(q, ans) ==
    IF q.type = "user_select"
    THEN IF ans.list THEN [i \in DOMAIN ans.v |-> <<ans.v[i]>>]
         ELSE <<Str(ans)>>
    ELSE IF q.type = "multi_choice" THEN <<Str(ans)>>
    ELSE << >>

\* What one answer adds to total
QCount(q, ans) ==
    IF q.type = "user_select" THEN Len(QVotes(q, ans))
    ELSE IF q.type \in {"multi_choice", "short_text"} THEN 1
    ELSE 0

\* for sub in submissions.values(): the keys of question q, in order
RECURSIVE VotesFor(_, _)
VotesFor(q, subs) ==
    IF subs = << >> THEN << >>
    ELSE LET sub == Head(subs)
         IN (IF HasAnswer(sub.answers, q.id)
             THEN QVotes(q, GetAnswer(sub.answers, q.id))
             ELSE << >>) \o VotesFor(q, Tail(subs))

RECURSIVE TotalFor(_, _)
TotalFor(q, subs) ==
    IF subs = << >> THEN 0
    ELSE LET sub == Head(subs)
         IN (IF HasAnswer(sub.answers, q.id)
             THEN QCount(q, GetAnswer(sub.answers, q.id))
             ELSE 0) + TotalFor(q, Tail(subs))

\* tallies[k] = tallies.get(k, 0) + 1 over the keys: the dict's items in
\* insertion order
RECURSIVE Tally(_)
Tally(votes) ==
    IF votes = << >> THEN << >>
    ELSE LET prev == Tally(SubSeq(votes, 1, Len(votes) - 1))
             k == votes[Len(votes)]
         IN IF HasKey(prev, "key", k)
            THEN [i \in DOMAIN prev |->
                    IF prev[i].key = k
                    THEN [prev[i] EXCEPT !.count = @ + 1] ELSE prev[i]]
            ELSE Append(prev, [key |-> k, count |-> 1])

\* sorted(tallies.items(), key=count, reverse=True): stable, so equal
\* counts keep their insertion order
Ranked(tallies) ==
    Items(StableSort([i \in DOMAIN tallies |->
        [key |-> 0 - tallies[i].count, item |-> tallies[i]]]))

\* The percentage cut after two decimals
Pct_cut(v, total) == (v * 10000) \div total

\* round((v / total) * 100, 2), in hundredths of a percent; a tie goes to
\* the even neighbour
Pct(v, total) ==
    LET n == v * 10000
        q == n \div total
        r == n % total
    IN IF 2 * r > total THEN q + 1
       ELSE IF 2 * r < total THEN q
       ELSE IF q % 2 = 0 THEN q ELSE q + 1

Top(ranked, total) ==
    IF total # 0 /\ ranked # << >>
    THEN [i \in 1..Min2(DEFAULT_TOP_N, Len(ranked)) |->
            [key |-> ranked[i].key, count |-> ranked[i].count,
             pct |-> Pct(ranked[i].count, total)]]
    ELSE << >>

Closest(ranked) ==
    IF Len(ranked) >= 2
    THEN Some([first |-> ranked[1].count, second |-> ranked[2].count,
               gap |-> ranked[1].count - ranked[2].count])
    ELSE None

\* Landslide only above 0.6
Landslide_above(ranked, total) ==
    total # 0 /\ ranked # << >> /\ 5 * ranked[1].count > 3 * total

\* (ranked[0][1] / total) >= 0.6
Landslide(ranked, total) ==
    total # 0 /\ ranked # << >> /\ 5 * ranked[1].count >= 3 * total

\* PerQuestion over the submissions that were submitted
PerQuestion_submitted_only(q, subs) ==
    LET done == SelectSeq(subs, LAMBDA sub : sub.submitted_at # None)
        total == TotalFor(q, done)
        ranked == Ranked(Tally(VotesFor(q, done)))
    IN [qid |-> q.id, type |-> q.type, total_votes |-> total,
        unique_nominees |-> Len(ranked), closest |-> Closest(ranked),
        landslide |-> Landslide(ranked, total), top |-> Top(ranked, total)]

PerQuestion(q, subs) ==
    LET total == TotalFor(q, subs)
        ranked == Ranked(Tally(VotesFor(q, subs)))
    IN [qid |-> q.id, type |-> q.type, total_votes |-> total,
        unique_nominees |-> Len(ranked), closest |-> Closest(ranked),
        landslide |-> Landslide(ranked, total), top |-> Top(ranked, total)]

\* The last of the items with the least key
FirstMin_last(keyed) ==
    IF keyed = << >> THEN None
    ELSE Some(keyed[CHOOSE i \in DOMAIN keyed :
                \A j \in DOMAIN keyed :
                    \/ keyed[i].key < keyed[j].key
                    \/ (keyed[i].key = keyed[j].key /\ i >= j)].item)

\* min(seq, key=...) and max(seq, key=...) return the first of the items
\* with the extreme key; None for an empty sequence
FirstMin(keyed) ==
    IF keyed = << >> THEN None
    ELSE Some(keyed[CHOOSE i \in DOMAIN keyed :
                \A j \in DOMAIN keyed :
                    \/ keyed[i].key < keyed[j].key
                    \/ (keyed[i].key = keyed[j].key /\ i <= j)].item)
FirstMax(keyed) ==
    FirstMin([i \in DOMAIN keyed |-> [keyed[i] EXCEPT !.key = 0 - @]])

\* the items of a sequence that satisfy a test, in order
RECURSIVE WithClosest(_)
WithClosest(per) ==
    IF per = << >> THEN << >>
    ELSE (IF Head(per).closest # None THEN <<Head(per)>> ELSE << >>)
         \o WithClosest(Tail(per))

\* overall_user_noms: the member-pick keys of all questions, in order
RECURSIVE UserVotes(_, _)
UserVotes(qs, subs) ==
    IF qs = << >> THEN << >>
    ELSE (IF Head(qs).type = "user_select"
          THEN VotesFor(Head(qs), subs) ELSE << >>)
         \o UserVotes(Tail(qs), subs)

Chaos(per, noms) ==
    LET close == WithClosest(per)
    IN [closest_race |->
            FirstMin([i \in DOMAIN close |->
                [key |-> close[i].closest[1].gap, item |-> close[i]]]),
        most_chaotic |->
            FirstMax([i \in DOMAIN per |->
                [key |-> per[i].unique_nominees, item |-> per[i]]]),
        most_nominated_user |->
            FirstMax([i \in DOMAIN noms |->
                [key |-> noms[i].count, item |-> noms[i].key]])]

compute_results(run) ==
    LET questions == SortedQuestions(run)
        per == [i \in DOMAIN questions |->
                    PerQuestion(questions[i], run.submissions)]
    IN [computed_at |-> Stamp,
        submissions |-> Len(run.submissions),
        per_question |-> per,
        chaos |-> Chaos(per, Tally(UserVotes(questions, run.submissions)))]

---------------------------------------------------------------------------
(* The handlers of a run's life.  A handler is a function of the bot's
   state and the interaction: it gives the message answered (msg), the
   document left in memory (data), the documents written to the store in
   order (puts) and the views, cache and counters it leaves.  A handler
   runs from its first line to its last without another handler in
   between, and every save_data it calls is accepted by the store at the
   first PUT; conflicts and failures are the subject of SpecSave.        *)

\* The people who invoke /awards create: interaction.guild is set and the
\* user is a Member (inGuild), the administrator permission, the role ids.
Actors ==
    {[inGuild |-> TRUE, admin |-> TRUE, roles |-> {}],
     [inGuild |-> TRUE, admin |-> FALSE, roles |-> {1}],
     [inGuild |-> FALSE, admin |-> FALSE, roles |-> {}]}

\* The members who fill in the awards
Voters == {"m1"}

\* has_access that wants every allowed role held
has_access_all_roles(actor) ==
    IF ~actor.inGuild THEN FALSE
    ELSE IF actor.admin THEN TRUE
    ELSE Range(data.settings.allowed_role_ids) \subseteq actor.roles

has_access(actor) ==
    IF ~actor.inGuild THEN FALSE
    ELSE IF actor.admin THEN TRUE
    ELSE LET allowed == Range(data.settings.allowed_role_ids)
         IN IF allowed = {} THEN FALSE
            ELSE allowed \cap actor.roles # {}

run_by_id(rid) ==
    IF data.active # None /\ data.active[1].id = rid
    THEN data.active ELSE None

ActiveRun == data.active[1]

\* The run ids for which a view can have been shown: those created so far
KnownRuns == 1..(nextRun - 1)

\* What a handler leaves: it answered msg, left d in memory and wrote the
\* documents w
Out(msg, d, w) ==
    [msg |-> msg, data |-> d, puts |-> w, emit |-> << >>, ui |-> ui,
     cache |-> cache, late |-> late, nextRun |-> nextRun]

\* A handler that only answered
Refused(msg) == Out(msg, data, << >>)

\* self.data after run replaced the active run
WithRun(run) == [data EXCEPT !.active = Some(run)]

\* A handler that changed the active run into run and called save_data
Saved(msg, run) == Out(msg, WithRun(run), <<WithRun(run)>>)

\* The run object a suspended handler holds is the active run as long as
\* the run with its id is active; a step that takes that run out of the
\* document leaves the handler with the object as it was then.
Detached(d) ==
    [t \in Tasks |->
        IF /\ fin[t].at # "idle"
           /\ fin[t].obj = None
           /\ run_by_id(fin[t].rid) # None
           /\ (d.active = None \/ d.active[1].id # fin[t].rid)
        THEN [fin[t] EXCEPT !.obj = data.active]
        ELSE fin[t]]

\* The step of the bot that handles one interaction
Handle(out) ==
    /\ data' = out.data
    /\ fin' = Detached(out.data)
    /\ remote' = IF out.puts = << >> THEN remote
                 ELSE Blob("json", out.puts[Len(out.puts)])
    /\ ui' = out.ui
    /\ cache' = out.cache
    /\ late' = out.late
    /\ nextRun' = out.nextRun
    /\ UNCHANGED <<sha, remoteSha, nextTok, taskVars, envVars, now>>

\* cmd_create without its test for an active run
cmd_create_unguarded(actor) ==
    IF ~has_access(actor) THEN Refused("no_access")
    ELSE [Saved("created", new_run(nextRun)) EXCEPT !.nextRun = @ + 1]

cmd_create(actor) ==
    IF ~has_access(actor) THEN Refused("no_access")
    ELSE IF data.active # None THEN Refused("already_active")
    ELSE [Saved("created", new_run(nextRun)) EXCEPT !.nextRun = @ + 1]

\* open_submissions without its test for a question
open_submissions_unguarded(rid, found) ==
    LET r == run_by_id(rid) IN
    IF r = None THEN Refused("no_active_run")
    ELSE IF r[1].status # "setup_suggestions" THEN Refused("cannot_open")
    ELSE Saved("opened", [r[1] EXCEPT !.status = "open"])

\* open_submissions; found: the announcement channel is a text channel of
\* the guild
open_submissions(rid, found) ==
    LET r == run_by_id(rid) IN
    IF r = None THEN Refused("no_active_run")
    ELSE IF r[1].status # "setup_suggestions" THEN Refused("cannot_open")
    ELSE IF Len(r[1].questions) = 0 THEN Refused("no_questions")
    ELSE LET run1 == [r[1] EXCEPT
                 !.deadline = IF @ = None
                              THEN Some(DEFAULT_SUBMISSION_DAYS) ELSE @,
                 !.status = "open"]
             run2 == [run1 EXCEPT
                 !.public_messages.submissions_message_id = Some(1)]
             newLate == IF r[1].deadline = None THEN FALSE ELSE late
         IN IF found
            THEN [Out("opened", WithRun(run2),
                      <<WithRun(run1), WithRun(run2)>>)
                    EXCEPT !.late = newLate]
            ELSE [Saved("channel_not_found", run1) EXCEPT !.late = newLate]

\* lock_submissions without its test of the status
lock_submissions_unguarded(rid) ==
    LET r == run_by_id(rid) IN
    IF r = None THEN Refused("not_open")
    ELSE Saved("locked", [r[1] EXCEPT !.status = "locked"])

lock_submissions(rid) ==
    LET r == run_by_id(rid) IN
    IF r = None \/ r[1].status # "open" THEN Refused("not_open")
    ELSE Saved("locked", [r[1] EXCEPT !.status = "locked"])

\* set_deadline_days, with the clamp of DeadlineDaysModal.on_submit
set_deadline_days(rid, raw) ==
    LET r == run_by_id(rid)
        days == clamp(raw, 1, 90)
    IN
    IF r = None THEN Refused("no_active_run")
    ELSE IF r[1].status \notin {"setup_suggestions", "open"}
    THEN Refused("deadline_refused")
    ELSE [Saved("deadline_set", [r[1] EXCEPT !.deadline = Some(days)])
            EXCEPT !.late = FALSE]

(* Access, roles and channels *)

\* The roles of the guild and the text channels a ChannelSelect offers
RoleIds == {1}
ChannelIds == {2}
ChannelKeys == {"suggestions", "results", "modlog"}

\* cmd_manage, then show_manage_panel with edit = False
cmd_manage(actor) ==
    IF ~has_access(actor) THEN Refused("no_access")
    ELSE IF data.active = None THEN Refused("no_active_run")
    ELSE [Out("panel", data, << >>) EXCEPT !.ui.panel = @ \cup {actor}]

\* cmd_open, cmd_lock, cmd_reveal: ensure_access, then the handler on the
\* active run
cmd_open(actor, found) ==
    IF ~has_access(actor) THEN Refused("no_access")
    ELSE IF data.active = None THEN Refused("no_active_run")
    ELSE open_submissions(ActiveRun.id, found)

cmd_lock(actor) ==
    IF ~has_access(actor) THEN Refused("no_access")
    ELSE IF data.active = None THEN Refused("no_active_run")
    ELSE lock_submissions(ActiveRun.id)

\* sorted(ids)
RECURSIVE Sorted(_)
Sorted(ids) ==
    IF ids = {} THEN << >>
    ELSE LET m == CHOOSE x \in ids : \A y \in ids : x <= y
         IN <<m>> \o Sorted(ids \ {m})

\* A handler that changed the settings and called save_data
SavedRoles(ids) ==
    LET d == [data EXCEPT !.settings.allowed_role_ids = Sorted(ids)]
    IN Out("roles", d, <<d>>)

\* add_allowed_roles and set_allowed_roles, the RoleSelect and the "Clear"
\* button of AllowedRolesView
add_allowed_roles(role_ids) ==
    SavedRoles(Range(data.settings.allowed_role_ids) \cup role_ids)

set_allowed_roles(role_ids) == SavedRoles(role_ids)

\* set_channel without its test for a reveal in progress
set_channel_unguarded(rid, key, channel_id) ==
    LET r == run_by_id(rid) IN
    IF r = None THEN Refused("no_active_run")
    ELSE Saved("channels", [r[1] EXCEPT !.channels[key] = channel_id])

\* set_channel that changes the suggestions channel in setup only
set_channel_setup_only(rid, key, channel_id) ==
    LET r == run_by_id(rid) IN
    IF r = None THEN Refused("no_active_run")
    ELSE IF r[1].status = "reveal_in_progress"
    THEN Refused("channels_locked")
    ELSE IF key = "suggestions" /\ r[1].status # "setup_suggestions"
    THEN Refused("channels_locked")
    ELSE Saved("channels", [r[1] EXCEPT !.channels[key] = channel_id])

\* set_channel; channel_id is None for the "Unset" button
set_channel(rid, key, channel_id) ==
    LET r == run_by_id(rid) IN
    IF r = None THEN Refused("no_active_run")
    ELSE IF r[1].status = "reveal_in_progress"
    THEN Refused("channels_locked")
    ELSE Saved("channels", [r[1] EXCEPT !.channels[key] = channel_id])

(* Suggestions *)

\* A suggestion of a run (text, author and instant left out)
Suggestion(sid, state) == [id |-> sid, state |-> state]

\* SuggestModal.on_submit calls self.bot.submit_suggestion, which AwardsBot
\* does not have: the def at line 1111 is a local function of
\* post_suggestion_message.  The call raises AttributeError; nothing is
\* changed or saved.
SuggestModal_on_submit(uid, rid) == Refused("attribute_error")

\* [s for s in suggestions if s["state"] == "pending"]
RECURSIVE Pending(_)
Pending(sugs) ==
    IF sugs = << >> THEN << >>
    ELSE (IF Head(sugs).state = "pending" THEN <<Head(sugs)>> ELSE << >>)
         \o Pending(Tail(sugs))

\* show_suggestion_review whose advance stops at the last pending suggestion
\* instead of wrapping to the first
show_suggestion_review_no_wrap(rid, advance) ==
    LET r == run_by_id(rid) IN
    IF r = None THEN Refused("no_active_run")
    ELSE LET pending == Pending(r[1].suggestions) IN
         IF pending = << >> THEN Refused("no_pending")
         ELSE LET idx0 == IF advance THEN cache.sug_idx + 1 ELSE cache.sug_idx
                  idx == clamp(idx0, 0, Len(pending) - 1)
              IN [Out("review", data, << >>) EXCEPT
                    !.cache.sug_idx = idx,
                    !.ui.review = @ \cup {<<rid, pending[idx + 1].id>>}]

\* show_suggestion_review: the review view of one pending suggestion
show_suggestion_review(rid, advance) ==
    LET r == run_by_id(rid) IN
    IF r = None THEN Refused("no_active_run")
    ELSE LET pending == Pending(r[1].suggestions) IN
         IF pending = << >> THEN Refused("no_pending")
         ELSE LET idx0 == IF advance
                          THEN (cache.sug_idx + 1) % Len(pending)
                          ELSE cache.sug_idx
                  idx == clamp(idx0, 0, Len(pending) - 1)
              IN [Out("review", data, << >>) EXCEPT
                    !.cache.sug_idx = idx,
                    !.ui.review = @ \cup {<<rid, pending[idx + 1].id>>}]

\* approve_suggestion and reject_suggestion: the suggestion with the id,
\* if it is pending, gets the state
Triage(rid, sug_id, state, msg) ==
    LET r == run_by_id(rid) IN
    IF r = None THEN Refused("no_active_run")
    ELSE IF ~HasKey(r[1].suggestions, "id", sug_id)
    THEN Refused("not_available")
    ELSE LET i == IndexOf(r[1].suggestions, "id", sug_id) IN
         IF r[1].suggestions[i].state # "pending"
         THEN Refused("not_available")
         ELSE Saved(msg, [r[1] EXCEPT !.suggestions[i].state = state])

\* approve_suggestion without its test for a pending suggestion
approve_suggestion_any(rid, sug_id) ==
    LET r == run_by_id(rid) IN
    IF r = None THEN Refused("no_active_run")
    ELSE IF ~HasKey(r[1].suggestions, "id", sug_id)
    THEN Refused("not_available")
    ELSE Saved("approved", [r[1] EXCEPT
            !.suggestions[IndexOf(r[1].suggestions, "id", sug_id)].state
                = "approved"])

approve_suggestion(rid, sug_id) ==
    Triage(rid, sug_id, "approved", "approved")

reject_suggestion(rid, sug_id) ==
    Triage(rid, sug_id, "rejected", "rejected")

(* Questions *)

\* _next_qid: the clock's whole second
next_qid == now

InSetup(r) == r # None /\ r[1].status = "setup_suggestions"

AddQuestion(run, type, max, choices) ==
    [run EXCEPT !.questions =
        Append(@, Question(next_qid, type, max, choices, Len(@)))]

\* create_question_user_select up to its answer: it shows the select whose
\* callback holds the run object
create_question_user_select(rid) ==
    LET r == run_by_id(rid) IN
    IF ~InSetup(r) THEN Refused("questions_locked")
    ELSE [Out("choose_max", data, << >>) EXCEPT !.ui.select = @ \cup {rid}]

\* _cb of create_question_user_select: an option of the select was picked.
\* It appends to the run object the handler looked up; that object is the
\* active run as long as the run with this id is active, and an object no
\* document refers to afterwards.  save_data is called in both cases.
select_callback(rid, max_n) ==
    LET r == run_by_id(rid) IN
    IF r = None THEN Out("added", data, <<data>>)
    ELSE Saved("added", AddQuestion(r[1], "user_select", max_n, << >>))

create_question_short_text(rid) ==
    LET r == run_by_id(rid) IN
    IF ~InSetup(r) THEN Refused("questions_locked")
    ELSE Saved("added", AddQuestion(r[1], "short_text", 1, << >>))

create_question_multi_choice(rid) ==
    LET r == run_by_id(rid) IN
    IF ~InSetup(r) THEN Refused("questions_locked")
    ELSE [Out("builder", data, << >>) EXCEPT
            !.cache.mc_qtext = TRUE, !.cache.mc_choices = << >>]

\* add_multi_choice_option; the builder refuses a 26th choice, which the
\* bound on the builder keeps out of reach
add_multi_choice_option(rid, choice) ==
    LET r == run_by_id(rid) IN
    IF ~InSetup(r) THEN Refused("not_available")
    ELSE IF choice = "" THEN Refused("empty_choice")
    ELSE [Out("choice_added", data, << >>) EXCEPT
            !.cache.mc_choices = Append(@, choice)]

finish_multi_choice(rid) ==
    LET r == run_by_id(rid) IN
    IF ~InSetup(r) THEN Refused("not_available")
    ELSE IF ~cache.mc_qtext \/ Len(cache.mc_choices) < 2
    THEN Refused("need_choices")
    ELSE Saved("added",
               AddQuestion(r[1], "multi_choice", 1, cache.mc_choices))

\* qs[idx], qs[new_idx] = qs[new_idx], qs[idx]
Swap(qs, i, j) ==
    [k \in DOMAIN qs |-> IF k = i THEN qs[j] ELSE IF k = j THEN qs[i]
                         ELSE qs[k]]

move_question(rid, qid, delta) ==
    LET r == run_by_id(rid) IN
    IF ~InSetup(r) THEN Refused("reorder_locked")
    ELSE LET qs == SortedQuestions(r[1]) IN
         IF ~HasKey(qs, "id", qid) THEN Refused("not_found")
         ELSE LET idx == IndexOf(qs, "id", qid) - 1
                  new_idx == clamp(idx + delta, 0, Len(qs) - 1)
              IN Saved("moved", [r[1] EXCEPT !.questions =
                          Renumber(Swap(qs, idx + 1, new_idx + 1))])

\* [q for q in questions if q["id"] != qid]
RECURSIVE WithoutId(_, _)
WithoutId(qs, qid) ==
    IF qs = << >> THEN << >>
    ELSE (IF Head(qs).id # qid THEN <<Head(qs)>> ELSE << >>)
         \o WithoutId(Tail(qs), qid)

remove_question(rid, qid) ==
    LET r == run_by_id(rid) IN
    IF ~InSetup(r) THEN Refused("remove_locked")
    ELSE LET kept == [r[1] EXCEPT !.questions = WithoutId(@, qid)]
         IN Saved("removed", [kept EXCEPT !.questions =
                                  Renumber(SortedQuestions(kept))])

(* The fill wizard *)

\* The values of a UserSelect with max_values = n: 1..n different members,
\* in the order picked
Picks(n) ==
    {p \in UNION {[1..k -> Members] : k \in 1..n} :
        \A i, j \in DOMAIN p : p[i] = p[j] => i = j}

\* The value the wizard's control for question q hands to save_answer
AnswerValues(q) ==
    IF q.type = "user_select"
    THEN IF q.max > 1
         THEN {Answer(TRUE, p) : p \in Picks(q.max)}
         ELSE {Answer(FALSE, <<m>>) : m \in Members}
    ELSE IF q.type = "multi_choice"
    THEN {Answer(FALSE, <<c>>) : c \in Range(q.choices)}
    ELSE {Answer(FALSE, <<t>>) : t \in AnswerTexts}

\* dl and now_utc() > parse_iso(dl)
DeadlinePassed(run) == run.deadline # None /\ late

\* start_fill, from /awards fill or the public button, then render_wizard
start_fill(uid, rid) ==
    LET r == run_by_id(rid) IN
    IF r = None \/ r[1].status # "open" THEN Refused("not_open")
    ELSE IF DeadlinePassed(r[1]) THEN Refused("deadline_passed")
    ELSE [(IF HasKey(r[1].submissions, "uid", uid)
           THEN Out("wizard", data, << >>)
           ELSE Saved("wizard", [r[1] EXCEPT !.submissions =
                                    Append(@, NewSubmission(uid))]))
            EXCEPT !.ui.wizard = @ \cup {<<uid, rid>>}]

\* run.setdefault("submissions", {}).setdefault(uid, {...})["answers"][qid]
\* = value
StoreAnswer(run, uid, qid, value) ==
    LET subs == IF HasKey(run.submissions, "uid", uid) THEN run.submissions
                ELSE Append(run.submissions, NewSubmission(uid))
        i == IndexOf(subs, "uid", uid)
    IN [run EXCEPT !.submissions =
            [subs EXCEPT ![i].answers = SetAnswer(@, qid, value)]]

\* save_answer answers nothing itself
save_answer(uid, rid, qid, value) ==
    LET r == run_by_id(rid) IN
    IF r = None THEN Refused("none")
    ELSE IF DeadlinePassed(r[1]) THEN Refused("none")
    ELSE Saved("none", StoreAnswer(r[1], uid, qid, value))

\* _cb of the wizard's control and ShortTextAnswerModal.on_submit:
\* save_answer, then "Saved."
answer_callback(uid, rid, qid, value) ==
    [save_answer(uid, rid, qid, value) EXCEPT !.msg = "saved"]

\* [q for q in qs if q["required"] and q["id"] not in answers]
Missing(run, uid) ==
    {i \in DOMAIN run.questions :
        /\ run.questions[i].required
        /\ \/ ~HasKey(run.submissions, "uid", uid)
           \/ ~HasAnswer(run.submissions[IndexOf(run.submissions, "uid",
                                                  uid)].answers,
                         run.questions[i].id)}

\* "Submit All" of the wizard
wizard_submit(uid, rid) ==
    LET r == run_by_id(rid) IN
    IF r = None THEN Refused("no_run")
    ELSE IF DeadlinePassed(r[1]) THEN Refused("deadline_passed")
    ELSE IF Missing(r[1], uid) # {} THEN Refused("missing")
    ELSE IF HasKey(r[1].submissions, "uid", uid)
    THEN Saved("submitted", [r[1] EXCEPT
            !.submissions[IndexOf(r[1].submissions, "uid", uid)]
                .submitted_at = Stamp])
    ELSE Out("submitted", data, <<data>>)

(* Ending and revealing *)

\* The archive entry of a run (name and dates left out)
ArchiveEntry(run, results) ==
    [id |-> run.id,
     questions |-> [i \in DOMAIN run.questions |->
                        [id |-> run.questions[i].id,
                         type |-> run.questions[i].type]],
     results |-> results]

\* self.data["archive"].append(archive); self.data["active"] = None
Archived(run, results) ==
    [data EXCEPT !.archive = Append(@, ArchiveEntry(run, results)),
                 !.active = None]

\* A handler that archived the run after writing the documents w; with no
\* active run there is no deadline for the clock to pass
Ended(msg, run, results, w) ==
    [Out(msg, Archived(run, results), Append(w, Archived(run, results)))
        EXCEPT !.late = FALSE]

end_run_no_reveal(rid) ==
    LET r == run_by_id(rid) IN
    IF r = None THEN Refused("no_active_run")
    ELSE Ended("ended", r[1], None, << >>)

\* reveal: shows the reveal-mode chooser of a locked run
reveal(rid) ==
    LET r == run_by_id(rid) IN
    IF r = None \/ r[1].status # "locked" THEN Refused("lock_first")
    ELSE [Out("chooser", data, << >>) EXCEPT !.ui.chooser = @ \cup {rid}]

\* cmd_reveal: ensure_access, then reveal on the active run
cmd_reveal(actor) ==
    IF ~has_access(actor) THEN Refused("no_access")
    ELSE IF data.active = None THEN Refused("no_active_run")
    ELSE reveal(ActiveRun.id)

\* post_chaos_button
WithChaosButton(run) ==
    [run EXCEPT !.public_messages.chaos_message_id = Some(1)]

\* Finalize with an archive entry that leaves the results out
Finalize_without_results(msg, run, w) ==
    LET run2 == WithChaosButton(run)
    IN Ended(msg, run2, None, Append(w, WithRun(run2)))

\* post_chaos_button then archive_and_clear_active, after the documents w
\* were written
Finalize(msg, run, w) ==
    LET run2 == WithChaosButton(run)
    IN Ended(msg, run2, run2.reveal.computed_results,
             Append(w, WithRun(run2)))

RevealModes == {"all", "step"}

\* The views after channel.send(format_result_block(b)) for the results
\* of run rid at positions from..to
Sent(u, rid, from, to) ==
    [u EXCEPT !.results = @ \cup {<<rid, j>> : j \in from..to}]

\* A handler that also sent the results at positions from..to to the
\* results channel
Emitted(out, rid, results, from, to) ==
    [out EXCEPT !.emit = SubSeq(results, from, to),
                !.ui = Sent(@, rid, from, to)]

\* _do_reveal that stores the results and leaves the status as it is
RevealBegun_status_kept(run, mode) ==
    [run EXCEPT
        !.reveal = [mode |-> Some(mode),
                    started_at |-> Stamp,
                    current_index |-> 0,
                    computed_results |-> Some(compute_results(run))]]

\* _do_reveal up to its first save_data: the results are computed and the
\* run is in reveal_in_progress
RevealBegun(run, mode) ==
    [run EXCEPT
        !.reveal = [mode |-> Some(mode),
                    started_at |-> Stamp,
                    current_index |-> 0,
                    computed_results |-> Some(compute_results(run))],
        !.status = "reveal_in_progress"]

\* _do_reveal, a button of the chooser; found: the results channel is a
\* text channel of the guild
do_reveal(rid, mode, found) ==
    LET r == run_by_id(rid) IN
    IF r = None THEN Refused("no_active_run")
    ELSE IF ~found THEN Refused("channel_not_found")
    ELSE LET run1 == RevealBegun(r[1], mode)
             results == run1.reveal.computed_results[1].per_question
         IN IF mode = "all"
            THEN Emitted(Finalize("released", run1, <<WithRun(run1)>>),
                         rid, results, 1, Len(results))
            ELSE [Saved("controls", run1) EXCEPT !.ui.controls = @ \cup {rid}]

Revealing(r) == r # None /\ r[1].status = "reveal_in_progress"

\* reveal_next, a button of the reveal controls
reveal_next(rid, found) ==
    LET r == run_by_id(rid) IN
    IF ~Revealing(r) THEN Refused("no_reveal")
    ELSE IF ~found THEN Refused("channel_not_found")
    ELSE LET idx == r[1].reveal.current_index
             results == r[1].reveal.computed_results[1].per_question
             run1 == [r[1] EXCEPT !.reveal.current_index = @ + 1]
         IN IF idx >= Len(results) THEN Refused("all_revealed")
            ELSE Emitted(IF idx + 1 >= Len(results)
                         THEN Finalize("final", run1, <<WithRun(run1)>>)
                         ELSE Saved("revealed", run1),
                         rid, results, idx + 1, idx + 1)

\* end_reveal_dump, a button of the reveal controls
end_reveal_dump(rid, found) ==
    LET r == run_by_id(rid) IN
    IF ~Revealing(r) THEN Refused("no_reveal")
    ELSE IF ~found THEN Refused("channel_not_found")
    ELSE LET idx == r[1].reveal.current_index
             results == r[1].reveal.computed_results[1].per_question
         IN Emitted(Finalize("dumped", r[1], << >>),
                    rid, results, idx + 1, Len(results))

---------------------------------------------------------------------------
(* The interactions: who can invoke which handler, and with what *)

DayInputs == {DEFAULT_SUBMISSION_DAYS}
ChoiceInputs == ChoiceTexts \cup {""}
QidInputs == 0..MaxTime

\* The bounds of the model: a handler that would create one run, question
\* or choice too many is not invoked
RoomForRun == nextRun <= MaxRuns
RoomForQuestion(rid) ==
    IF run_by_id(rid) = None THEN TRUE
    ELSE Len(run_by_id(rid)[1].questions) < MaxQuestions
RoomForChoice == Len(cache.mc_choices) < MaxChoices

\* /awards create
CmdCreate ==
    \E actor \in Actors :
        /\ cmd_create(actor).msg = "created" => RoomForRun
        /\ Handle(cmd_create(actor))

\* The buttons of the manage panel shown for a run, and /awards open, lock
OpenSubmissions ==
    \E rid \in KnownRuns, found \in BOOLEAN :
        Handle(open_submissions(rid, found))

LockSubmissions == \E rid \in KnownRuns : Handle(lock_submissions(rid))

SetDeadlineDays ==
    \E rid \in KnownRuns, raw \in DayInputs :
        Handle(set_deadline_days(rid, raw))

EndRunNoReveal == \E rid \in KnownRuns : Handle(end_run_no_reveal(rid))

Reveal == \E rid \in KnownRuns : Handle(reveal(rid))

\* The buttons of the question views
CreateQuestionUserSelect ==
    \E rid \in KnownRuns : Handle(create_question_user_select(rid))

\* The select shown by create_question_user_select for run rid
SelectCallback ==
    \E rid \in ui.select, n \in MaxOptions :
        /\ RoomForQuestion(rid)
        /\ Handle(select_callback(rid, n))

CreateQuestionShortText ==
    \E rid \in KnownRuns :
        /\ RoomForQuestion(rid)
        /\ Handle(create_question_short_text(rid))

CreateQuestionMultiChoice ==
    \E rid \in KnownRuns : Handle(create_question_multi_choice(rid))

AddMultiChoiceOption ==
    \E rid \in KnownRuns, c \in ChoiceInputs :
        /\ add_multi_choice_option(rid, c).msg = "choice_added"
                => RoomForChoice
        /\ Handle(add_multi_choice_option(rid, c))

FinishMultiChoice ==
    \E rid \in KnownRuns :
        /\ RoomForQuestion(rid)
        /\ Handle(finish_multi_choice(rid))

MoveQuestion ==
    \E rid \in KnownRuns, qid \in QidInputs, delta \in {-1, 1} :
        Handle(move_question(rid, qid, delta))

RemoveQuestion ==
    \E rid \in KnownRuns, qid \in QidInputs :
        Handle(remove_question(rid, qid))

\* /awards fill and the public button of a run
StartFill ==
    \E uid \in Voters, rid \in KnownRuns : Handle(start_fill(uid, rid))

\* A control of the wizard shown to uid for run rid, for one of the run's
\* questions
AnswerCallback ==
    \E w \in ui.wizard :
        LET r == run_by_id(w[2]) IN
        IF r = None
        THEN Handle(answer_callback(w[1], w[2], 0, Answer(FALSE, <<"t">>)))
        ELSE \E q \in Range(r[1].questions) : \E value \in AnswerValues(q) :
                Handle(answer_callback(w[1], w[2], q.id, value))

WizardSubmit == \E w \in ui.wizard : Handle(wizard_submit(w[1], w[2]))

\* The buttons of the chooser shown by reveal for run rid
DoReveal ==
    \E rid \in ui.chooser, mode \in RevealModes, found \in BOOLEAN :
        Handle(do_reveal(rid, mode, found))

\* The buttons of the reveal controls shown by _do_reveal for run rid
RevealNext ==
    \E rid \in ui.controls, found \in BOOLEAN :
        Handle(reveal_next(rid, found))

EndRevealDump ==
    \E rid \in ui.controls, found \in BOOLEAN :
        Handle(end_reveal_dump(rid, found))

(* The clock *)

\* The ids of the questions of the active run
UsedQids ==
    {q.id : q \in IF data.active = None THEN {}
                  ELSE Range(data.active[1].questions)}

\* A second passes.  Question ids are the only use of the clock and they
\* are only compared with each other, so a second in which no question
\* was created is not counted.
Tick ==
    /\ now < MaxTime
    /\ now \in UsedQids
    /\ now' = now + 1
    /\ UNCHANGED <<storeVars, taskVars, envVars, ui, cache, late, nextRun,
                   fin>>

\* The deadline of the active run passes
DeadlinePasses ==
    /\ data.active # None
    /\ data.active[1].deadline # None
    /\ ~late
    /\ late' = TRUE
    /\ UNCHANGED <<storeVars, taskVars, envVars, ui, cache, now, nextRun,
                   fin>>

---------------------------------------------------------------------------
(* Handlers suspended at their awaits.  A finalizing handler (_do_reveal
   in mode all, reveal_next, end_reveal_dump) awaits the sends to the
   results channel and its save_data calls; while it waits, the bot
   handles other interactions.  Each of the steps below runs from one
   await of the handler to the next; a save_data it calls is accepted at
   its first PUT, with the document of that moment.                     *)

\* The handlers that can be suspended at once
FinTasks == {1}

\* One of the results of run rid at positions from..to was sent before
Resent(rid, from, to) == \E j \in from..to : <<rid, j>> \in ui.results

\* One run more than in the lifecycle specification: the run created
\* while a handler of the run before is suspended
MaxFinRuns == MaxRuns + 1

\* The run object handler t holds
Held(t) == IF fin[t].obj # None THEN fin[t].obj[1] ELSE ActiveRun

\* The document after handler t changed its run object into run
HeldData(t, run) == IF fin[t].obj # None THEN data ELSE WithRun(run)

\* The handlers after handler t changed its run object into run and went
\* on to position at
HeldFin(t, run, at) ==
    [fin EXCEPT ![t].at = at,
                ![t].obj = IF fin[t].obj # None THEN Some(run) ELSE None]

\* A step of handler t that leaves d in memory, writes it to the store and
\* leaves the handlers f
FinStep(d, f) ==
    /\ data' = d
    /\ remote' = Blob("json", d)
    /\ fin' = f
    /\ UNCHANGED <<sha, remoteSha, nextTok, taskVars, envVars, cache, now,
                   nextRun>>

\* _do_reveal in mode all, lines 1773-1801: its first save_data and the
\* sends of the results
DoRevealAllBegin(t) ==
    /\ fin[t].at = "idle"
    /\ \E rid \in ui.chooser :
          /\ run_by_id(rid) # None
          /\ LET run1 == RevealBegun(ActiveRun, "all")
             IN /\ FinStep(WithRun(run1),
                           [fin EXCEPT ![t] =
                              [at |-> "chaos", rid |-> rid, obj |-> None,
                               again |-> Resent(rid, 1,
                                  Len(run1.reveal.computed_results[1]
                                          .per_question))]])
                /\ ui' = Sent(ui, rid, 1,
                       Len(run1.reveal.computed_results[1].per_question))
    /\ UNCHANGED late

\* reveal_next, lines 1813-1832: its tests, up to the send of the result
RevealNextBegin(t) ==
    /\ fin[t].at = "idle"
    /\ \E rid \in ui.controls :
          /\ Revealing(run_by_id(rid))
          /\ ActiveRun.reveal.current_index
                 < Len(ActiveRun.reveal.computed_results[1].per_question)
          /\ fin' = [fin EXCEPT ![t] =
                        [at |-> "next", rid |-> rid, obj |-> None,
                         again |-> Resent(rid,
                                      ActiveRun.reveal.current_index + 1,
                                      ActiveRun.reveal.current_index + 1)]]
          /\ ui' = Sent(ui, rid, ActiveRun.reveal.current_index + 1,
                        ActiveRun.reveal.current_index + 1)
    /\ UNCHANGED <<storeVars, taskVars, envVars, cache, now, late, nextRun>>

\* reveal_next, lines 1833-1845: the index moves on and is saved; after
\* the last result the handler goes on to finalize
RevealNextSave(t) ==
    /\ fin[t].at = "next"
    /\ LET run1 == [Held(t) EXCEPT !.reveal.current_index = @ + 1]
           last == run1.reveal.current_index
                     >= Len(run1.reveal.computed_results[1].per_question)
       IN FinStep(HeldData(t, run1),
                  IF last THEN HeldFin(t, run1, "chaos")
                  ELSE [fin EXCEPT ![t] = NoFin])
    /\ UNCHANGED <<ui, late>>

\* end_reveal_dump, lines 1848-1864: its tests, up to the sends
EndRevealDumpBegin(t) ==
    /\ fin[t].at = "idle"
    /\ \E rid \in ui.controls :
          /\ Revealing(run_by_id(rid))
          /\ fin' = [fin EXCEPT ![t] =
                [at |-> "chaos", rid |-> rid, obj |-> None,
                 again |-> Resent(rid, ActiveRun.reveal.current_index + 1,
                    Len(ActiveRun.reveal.computed_results[1].per_question))]]
          /\ ui' = Sent(ui, rid, ActiveRun.reveal.current_index + 1,
               Len(ActiveRun.reveal.computed_results[1].per_question))
    /\ UNCHANGED <<storeVars, taskVars, envVars, cache, now, late, nextRun>>

\* post_chaos_button after its send: the message id is kept in the run
\* object and save_data is called
PostChaosButton(t) ==
    /\ fin[t].at = "chaos"
    /\ LET run2 == WithChaosButton(Held(t))
       IN FinStep(HeldData(t, run2), HeldFin(t, run2, "archive"))
    /\ UNCHANGED <<ui, late>>

\* archive_and_clear_active(run) with the run object the handler holds
ArchiveAndClearActive(t) ==
    /\ fin[t].at = "archive"
    /\ LET d == Archived(Held(t), Held(t).reveal.computed_results)
       IN FinStep(d, [Detached(d) EXCEPT ![t] = NoFin])
    /\ late' = FALSE
    /\ UNCHANGED ui

\* /awards create while handlers may be suspended
FinCmdCreate ==
    \E actor \in Actors :
        /\ cmd_create(actor).msg = "created" => nextRun <= MaxFinRuns
        /\ Handle(cmd_create(actor))

\* The chooser's "Reveal One by One"
FinDoRevealStep ==
    \E rid \in ui.chooser : Handle(do_reveal(rid, "step", TRUE))

NextFinal ==
    \/ FinCmdCreate
    \/ CreateQuestionShortText
    \/ OpenSubmissions
    \/ LockSubmissions
    \/ Reveal
    \/ FinDoRevealStep
    \/ EndRunNoReveal
    \/ Tick
    \/ \E t \in FinTasks : DoRevealAllBegin(t)
    \/ \E t \in FinTasks : RevealNextBegin(t)
    \/ \E t \in FinTasks : RevealNextSave(t)
    \/ \E t \in FinTasks : EndRevealDumpBegin(t)
    \/ \E t \in FinTasks : PostChaosButton(t)
    \/ \E t \in FinTasks : ArchiveAndClearActive(t)

\* The presses of "Reveal Next" of two interactions at once, in step mode
NextStep ==
    \/ CmdCreate
    \/ CreateQuestionShortText
    \/ OpenSubmissions
    \/ LockSubmissions
    \/ Reveal
    \/ FinDoRevealStep
    \/ Tick
    \/ \E t \in Tasks : RevealNextBegin(t)
    \/ \E t \in Tasks : RevealNextSave(t)
    \/ \E t \in Tasks : PostChaosButton(t)
    \/ \E t \in Tasks : ArchiveAndClearActive(t)

\* The finalizing handlers of two interactions at once
NextRace ==
    \/ CmdCreate
    \/ CreateQuestionShortText
    \/ OpenSubmissions
    \/ LockSubmissions
    \/ Reveal
    \/ FinDoRevealStep
    \/ EndRunNoReveal
    \/ Tick
    \/ \E t \in Tasks : DoRevealAllBegin(t)
    \/ \E t \in Tasks : RevealNextBegin(t)
    \/ \E t \in Tasks : RevealNextSave(t)
    \/ \E t \in Tasks : EndRevealDumpBegin(t)
    \/ \E t \in Tasks : PostChaosButton(t)
    \/ \E t \in Tasks : ArchiveAndClearActive(t)

---------------------------------------------------------------------------
(* The question list of a run in setup, with one question and one second
   more than in the lifecycle specification.                             *)

MaxOrdered == MaxQuestions + 1
MaxOrderedTime == MaxTime + 1

RoomForOrdered(rid) ==
    IF run_by_id(rid) = None THEN TRUE
    ELSE Len(run_by_id(rid)[1].questions) < MaxOrdered

OrderedCreateShortText ==
    \E rid \in KnownRuns :
        /\ RoomForOrdered(rid)
        /\ Handle(create_question_short_text(rid))

OrderedSelectCallback ==
    \E rid \in ui.select, n \in MaxOptions :
        /\ RoomForOrdered(rid)
        /\ Handle(select_callback(rid, n))

OrderedMoveQuestion ==
    \E rid \in KnownRuns, qid \in 0..MaxOrderedTime, delta \in {-1, 1} :
        Handle(move_question(rid, qid, delta))

OrderedRemoveQuestion ==
    \E rid \in KnownRuns, qid \in 0..MaxOrderedTime :
        Handle(remove_question(rid, qid))

OrderedTick ==
    /\ now < MaxOrderedTime
    /\ now \in UsedQids
    /\ now' = now + 1
    /\ UNCHANGED <<storeVars, taskVars, envVars, ui, cache, late, nextRun,
                   fin>>

NextOrdered ==
    \/ CmdCreate
    \/ OrderedCreateShortText
    \/ CreateQuestionUserSelect
    \/ OrderedSelectCallback
    \/ OrderedMoveQuestion
    \/ OrderedRemoveQuestion
    \/ OrderedTick

---------------------------------------------------------------------------
(* The management interactions: the slash commands of an actor, and the
   buttons of the manage panel and of the views reached from it, pressed
   by an actor the panel was shown to.  show_allowed_roles, show_channels,
   pick_channel and show_questions only change the view shown; each is
   taken together with the press that follows it.                       *)

CmdManage == \E actor \in Actors : Handle(cmd_manage(actor))

CmdOpen ==
    \E actor \in Actors, found \in BOOLEAN : Handle(cmd_open(actor, found))

CmdLock == \E actor \in Actors : Handle(cmd_lock(actor))

CmdReveal == \E actor \in Actors : Handle(cmd_reveal(actor))

PanelOpenSubmissions ==
    \E actor \in ui.panel, rid \in KnownRuns, found \in BOOLEAN :
        Handle(open_submissions(rid, found))

PanelLockSubmissions ==
    \E actor \in ui.panel, rid \in KnownRuns :
        Handle(lock_submissions(rid))

PanelReveal ==
    \E actor \in ui.panel, rid \in KnownRuns : Handle(reveal(rid))

PanelEndRun ==
    \E actor \in ui.panel, rid \in KnownRuns :
        Handle(end_run_no_reveal(rid))

PanelAddQuestion ==
    \E actor \in ui.panel, rid \in KnownRuns :
        /\ RoomForQuestion(rid)
        /\ Handle(create_question_short_text(rid))

AddAllowedRoles ==
    \E actor \in ui.panel, ids \in (SUBSET RoleIds) \ {{}} :
        Handle(add_allowed_roles(ids))

ClearAllowedRoles ==
    \E actor \in ui.panel : Handle(set_allowed_roles({}))

\* What ChannelPickView hands to set_channel: the channel picked, or None
ChannelValues == {None} \cup {Some(c) : c \in ChannelIds}

SetChannel ==
    \E actor \in ui.panel, rid \in KnownRuns, key \in ChannelKeys,
       ch \in ChannelValues :
        Handle(set_channel(rid, key, ch))

ShowSuggestionReview ==
    \E actor \in ui.panel, rid \in KnownRuns, advance \in BOOLEAN :
        Handle(show_suggestion_review(rid, advance))

\* The buttons of the review view shown for a suggestion
ApproveSuggestion ==
    \E v \in ui.review : Handle(approve_suggestion(v[1], v[2]))

RejectSuggestion ==
    \E v \in ui.review : Handle(reject_suggestion(v[1], v[2]))

\* A stored document whose active run is in setup and holds two pending
\* suggestions
LoadedDoc ==
    [default_data EXCEPT !.active =
        Some([new_run(1) EXCEPT !.suggestions =
                <<Suggestion("s1", "pending"), Suggestion("s2", "pending")>>])]

\* The bot after reload_data of that document
InitTriage ==
    /\ data = LoadedDoc
    /\ sha = 1
    /\ remote = Blob("json", LoadedDoc)
    /\ remoteSha = 1
    /\ nextTok = 2
    /\ pc = [t \in Tasks |-> "idle"]
    /\ attempt = [t \in Tasks |-> 0]
    /\ req = [t \in Tasks |-> NoReq]
    /\ resp = [t \in Tasks |-> NoResp]
    /\ hist = [t \in Tasks |-> NoHist]
    /\ extCount = 0
    /\ calls = 0
    /\ ui = NoUi
    /\ cache = NoCache
    /\ now = 0
    /\ late = FALSE
    /\ nextRun = 2
    /\ fin = [t \in Tasks |-> NoFin]

NextAdmin ==
    \/ CmdCreate
    \/ CmdManage
    \/ CmdOpen
    \/ CmdLock
    \/ CmdReveal
    \/ PanelOpenSubmissions
    \/ PanelLockSubmissions
    \/ PanelReveal
    \/ PanelEndRun
    \/ PanelAddQuestion
    \/ AddAllowedRoles
    \/ ClearAllowedRoles
    \/ SetChannel
    \/ DoReveal
    \/ RevealNext
    \/ EndRevealDump
    \/ Tick

NextTriage ==
    \/ CmdManage
    \/ ShowSuggestionReview
    \/ ApproveSuggestion
    \/ RejectSuggestion
    \/ PanelAddQuestion
    \/ PanelOpenSubmissions
    \/ PanelLockSubmissions
    \/ PanelEndRun
    \/ Tick

---------------------------------------------------------------------------
(* The lifecycle specification: the bot after reload_data of an absent
   object, one manager and the members acting on it.                    *)

Init ==
    /\ data = default_data
    /\ sha = 1
    /\ remote = Blob("json", default_data)
    /\ remoteSha = 1
    /\ nextTok = 2
    /\ pc = [t \in Tasks |-> "idle"]
    /\ attempt = [t \in Tasks |-> 0]
    /\ req = [t \in Tasks |-> NoReq]
    /\ resp = [t \in Tasks |-> NoResp]
    /\ hist = [t \in Tasks |-> NoHist]
    /\ extCount = 0
    /\ calls = 0
    /\ InitLife

Next ==
    \/ CmdCreate
    \/ OpenSubmissions
    \/ LockSubmissions
    \/ SetDeadlineDays
    \/ EndRunNoReveal
    \/ Reveal
    \/ CreateQuestionUserSelect
    \/ SelectCallback
    \/ CreateQuestionShortText
    \/ CreateQuestionMultiChoice
    \/ AddMultiChoiceOption
    \/ FinishMultiChoice
    \/ MoveQuestion
    \/ RemoveQuestion
    \/ StartFill
    \/ AnswerCallback
    \/ WizardSubmit
    \/ DoReveal
    \/ RevealNext
    \/ EndRevealDump
    \/ Tick
    \/ DeadlinePasses

Spec == Init /\ [][Next]_vars

\* The management specification: the same bot, its managers acting through
\* slash commands and panels
SpecAdmin == Init /\ [][NextAdmin]_vars

\* The triage specification: the bot started on a stored document that
\* holds suggestions, which this program has no operation to create
SpecTriage == InitTriage /\ [][NextTriage]_vars

\* The question-list specification
SpecOrdered == Init /\ [][NextOrdered]_vars

\* The finalization specification: the same bot, its finalizing handlers
\* taken one await at a time
SpecFinal == Init /\ [][NextFinal]_vars

\* The race specification: the same bot, two finalizing handlers in flight
SpecRace == Init /\ [][NextRace]_vars

\* The step-reveal specification: two reveal_next handlers in flight
SpecStep == Init /\ [][NextStep]_vars

---------------------------------------------------------------------------
(* The store specification: one save_data call at a time, against other  *)
(* writers.  It starts after reload_data: memory and remote agree.       *)

InitSave ==
    /\ data \in StoreDocs
    /\ sha = 1
    /\ remote = Blob("json", data)
    /\ remoteSha = 1
    /\ nextTok = 2
    /\ pc = [t \in Tasks |-> "idle"]
    /\ attempt = [t \in Tasks |-> 0]
    /\ req = [t \in Tasks |-> NoReq]
    /\ resp = [t \in Tasks |-> NoResp]
    /\ hist = [t \in Tasks |-> NoHist]
    /\ extCount = 0
    /\ calls = 0
    /\ InitLife

\* One handler at a time.
SaveTasks == {1}

NextSave ==
    \/ \E t \in SaveTasks : SaveBegin(t)
    \/ \E t \in SaveTasks : PutServe(t)
    \/ \E t \in SaveTasks : PutRecv(t)
    \/ \E t \in SaveTasks : GetServe(t)
    \/ \E t \in SaveTasks : GetRecv(t)
    \/ \E t \in SaveTasks : SaveEnd(t)
    \/ ExtWrite
    \/ ExtDelete

SpecSave == InitSave /\ [][NextSave]_vars

\* Every request the process sends is answered, and the task that waits
\* for the answer runs on.
FairSpecSave ==
    /\ SpecSave
    /\ \A t \in SaveTasks :
          /\ WF_vars(PutServe(t))
          /\ WF_vars(PutRecv(t))
          /\ WF_vars(GetServe(t))
          /\ WF_vars(GetRecv(t))

---------------------------------------------------------------------------
(* compute_results over the runs it can be given: a locked run with one or
   two questions of any type and the submissions of three members, each
   holding for each question no answer or one of the values the wizard's
   control for that question hands to save_answer.  _do_reveal computes
   the results and keeps them in the run.                               *)

\* The members who fill in the awards
Submitters == <<"u1", "u2", "u3">>

\* The questions of the run: member picks with max 1 and 2, a multiple
\* choice between two options, a short text
QuestionKinds ==
    {[type |-> "user_select", max |-> 1, choices |-> << >>],
     [type |-> "user_select", max |-> 2, choices |-> << >>],
     [type |-> "multi_choice", max |-> 1, choices |-> <<"a", "b">>],
     [type |-> "short_text", max |-> 1, choices |-> << >>]}

\* run["questions"] as the creation handlers leave it: ids 0.. and order
\* the position in the list
QuestionLists ==
    {[i \in DOMAIN k |-> Question(i - 1, k[i].type, k[i].max, k[i].choices,
                                  i - 1)] :
        k \in UNION {[1..n -> QuestionKinds] : n \in 1..2}}

\* answers.get(qid) is None
NoAnswer == Answer(FALSE, << >>)

\* What a submission can hold for question q: nothing, or a value of the
\* wizard's control (for a member pick with max 2, some of the lists)
Answered(q) ==
    {NoAnswer} \cup
    (IF q.type = "user_select"
     THEN IF q.max > 1
          THEN {Answer(TRUE, p) :
                  p \in {<<"A">>, <<"A", "B">>, <<"B", "A">>, <<"C", "D">>}}
          ELSE {Answer(FALSE, <<m>>) : m \in {"A", "B"}}
     ELSE IF q.type = "multi_choice"
     THEN {Answer(FALSE, <<c>>) : c \in Range(q.choices)}
     ELSE {Answer(FALSE, <<t>>) : t \in AnswerTexts})

\* The answers dict of a submission that holds f[i] for question i
AnswersOf(qs, f) ==
    SelectSeq([i \in DOMAIN qs |-> <<qs[i].id, f[i]>>],
              LAMBDA a : a[2] # NoAnswer)

\* What one submission can hold for the questions qs
AnswerSheets(qs) ==
    {f \in [DOMAIN qs -> UNION {Answered(qs[i]) : i \in DOMAIN qs}] :
        \A i \in DOMAIN qs : f[i] \in Answered(qs[i])}

\* A stored document whose active run is locked, with the questions qs and
\* the submissions that hold g[u] for submitter u
LockedDoc(qs, g) ==
    [default_data EXCEPT !.active =
        Some([new_run(1) EXCEPT
                !.status = "locked",
                !.questions = qs,
                !.submissions =
                    [u \in DOMAIN Submitters |->
                        [NewSubmission(Submitters[u]) EXCEPT
                            !.answers = AnswersOf(qs, g[u])]]])]

\* The bot after reload_data of such a document, the reveal-mode chooser
\* shown
InitTally ==
    /\ \E qs \in QuestionLists :
          \E f1, f2, f3 \in AnswerSheets(qs) :
              data = LockedDoc(qs, <<f1, f2, f3>>)
    /\ sha = 1
    /\ remote = Blob("json", data)
    /\ remoteSha = 1
    /\ nextTok = 2
    /\ pc = [t \in Tasks |-> "idle"]
    /\ attempt = [t \in Tasks |-> 0]
    /\ req = [t \in Tasks |-> NoReq]
    /\ resp = [t \in Tasks |-> NoResp]
    /\ hist = [t \in Tasks |-> NoHist]
    /\ extCount = 0
    /\ calls = 0
    /\ ui = [NoUi EXCEPT !.chooser = {1}]
    /\ cache = NoCache
    /\ now = 0
    /\ late = FALSE
    /\ nextRun = 2
    /\ fin = [t \in Tasks |-> NoFin]

NextTally == DoReveal

SpecTally == InitTally /\ [][NextTally]_vars

---------------------------------------------------------------------------
(* The store specification with a handler that archives: the handler that
   calls save_data has changed settings and active, or has appended an
   entry to the archive and cleared active, as archive_and_clear_active
   and end_run_no_reveal do.                                            *)

\* The entry the handler appends
NewEntry == 2

\* The handler changes the document in memory and calls save_data
SaveBeginArchive(t) ==
    /\ pc[t] = "idle"
    /\ calls < MaxCalls
    /\ calls' = calls + 1
    /\ \/ \E s \in StoreDocs :
             data' = [data EXCEPT !.settings = s.settings,
                                  !.active = s.active]
       \/ data' = [data EXCEPT !.archive = Append(@, NewEntry),
                               !.active = None]
    /\ pc' = [pc EXCEPT ![t] = "put"]
    /\ attempt' = [attempt EXCEPT ![t] = 1]
    /\ req' = [req EXCEPT ![t] = [doc |-> data', sha |-> sha]]
    /\ hist' = [hist EXCEPT ![t] = [NoHist EXCEPT !.intent = data']]
    /\ UNCHANGED <<sha, remote, remoteSha, nextTok, resp, extCount>>
    /\ UNCHANGED lifeVars

NextArchive ==
    \/ \E t \in SaveTasks : SaveBeginArchive(t)
    \/ \E t \in SaveTasks : PutServe(t)
    \/ \E t \in SaveTasks : PutRecv(t)
    \/ \E t \in SaveTasks : GetServe(t)
    \/ \E t \in SaveTasks : GetRecv(t)
    \/ \E t \in SaveTasks : SaveEnd(t)
    \/ ExtWrite
    \/ ExtDelete

SpecArchive == InitSave /\ [][NextArchive]_vars

---------------------------------------------------------------------------
(* The store specification with two handlers of the process in flight:
   each changes the document in memory and calls save_data once, and the
   calls overlap at their awaits.  No other writer acts.                 *)

\* Handler t changes the document in memory and calls save_data
SaveBeginOverlap(t) ==
    /\ pc[t] = "idle"
    /\ calls < Cardinality(Tasks)
    /\ calls' = calls + 1
    /\ \E s \in StoreDocs :
          data' = [data EXCEPT !.settings = s.settings,
                               !.active = s.active,
                               !.archive = s.archive]
    /\ pc' = [pc EXCEPT ![t] = "put"]
    /\ attempt' = [attempt EXCEPT ![t] = 1]
    /\ req' = [req EXCEPT ![t] = [doc |-> data', sha |-> sha]]
    /\ hist' = [hist EXCEPT ![t] = [NoHist EXCEPT !.intent = data']]
    /\ UNCHANGED <<sha, remote, remoteSha, nextTok, resp, extCount>>
    /\ UNCHANGED lifeVars

NextOverlap ==
    \/ \E t \in Tasks : SaveBeginOverlap(t)
    \/ \E t \in Tasks : PutServe(t)
    \/ \E t \in Tasks : PutRecv(t)
    \/ \E t \in Tasks : GetServe(t)
    \/ \E t \in Tasks : GetRecv(t)
    \/ \E t \in Tasks : SaveEnd(t)

SpecOverlap == InitSave /\ [][NextOverlap]_vars

---------------------------------------------------------------------------
(* The store specification with a handler whose save_data raises and a
   later one: the first changes the active run as lock_submissions does,
   the later one changes the settings as add_allowed_roles does.  The
   record of the first call is kept while the later one runs.            *)

\* The handler that changes the active run and calls save_data
FirstTask == 1

\* The handler of the later action
LaterTask == 2

SaveBeginActive ==
    /\ pc[FirstTask] = "idle"
    /\ calls = 0
    /\ calls' = calls + 1
    /\ \E s \in StoreDocs :
          /\ s.active # data.active
          /\ data' = [data EXCEPT !.active = s.active]
    /\ pc' = [pc EXCEPT ![FirstTask] = "put"]
    /\ attempt' = [attempt EXCEPT ![FirstTask] = 1]
    /\ req' = [req EXCEPT ![FirstTask] = [doc |-> data', sha |-> sha]]
    /\ hist' = [hist EXCEPT ![FirstTask] = [NoHist EXCEPT !.intent = data']]
    /\ UNCHANGED <<sha, remote, remoteSha, nextTok, resp, extCount>>
    /\ UNCHANGED lifeVars

SaveBeginSettings ==
    /\ pc[FirstTask] = "raised"
    /\ pc[LaterTask] = "idle"
    /\ calls = 1
    /\ calls' = calls + 1
    /\ \E s \in StoreDocs :
          /\ s.settings # data.settings
          /\ data' = [data EXCEPT !.settings = s.settings]
    /\ pc' = [pc EXCEPT ![LaterTask] = "put"]
    /\ attempt' = [attempt EXCEPT ![LaterTask] = 1]
    /\ req' = [req EXCEPT ![LaterTask] = [doc |-> data', sha |-> sha]]
    /\ hist' = [hist EXCEPT ![LaterTask] = [NoHist EXCEPT !.intent = data']]
    /\ UNCHANGED <<sha, remote, remoteSha, nextTok, resp, extCount>>
    /\ UNCHANGED lifeVars

NextRaise ==
    \/ SaveBeginActive
    \/ SaveBeginSettings
    \/ \E t \in Tasks : PutServe(t)
    \/ \E t \in Tasks : PutRecv(t)
    \/ \E t \in Tasks : GetServe(t)
    \/ \E t \in Tasks : GetRecv(t)
    \/ ExtWrite
    \/ ExtDelete

SpecRaise == InitSave /\ [][NextRaise]_vars

---------------------------------------------------------------------------
(* reload_data, called once by setup_hook before any handler runs.  The
   bot starts with self.data = {} and self.sha = None; the remote object
   is absent, empty or a document, and other writers act meanwhile.      *)

\* self.data = {} of __init__
NoData == << >>

\* The task that runs setup_hook
BootTask == 1

\* store.load of reload_data (line 681): the endpoint answers the GET and
\* reload_data goes on with the pair load returns.  An empty document
\* ("if not d") is replaced by default_data() and sent with the sha load
\* returned; any other document is kept, the setdefault calls of lines
\* 687-693 finding every key present.
ReloadLoad ==
    /\ pc[BootTask] = "boot"
    /\ \/ /\ pc' = [pc EXCEPT ![BootTask] = "raised"]
          /\ hist' = [hist EXCEPT ![BootTask].why = "store_error"]
          /\ UNCHANGED <<data, sha, req, attempt>>
       \/ LET r == load(remote, remoteSha)
          IN IF r.state = "empty"
             THEN /\ pc' = [pc EXCEPT ![BootTask] = "put"]
                  /\ req' = [req EXCEPT ![BootTask] =
                                [doc |-> default_data, sha |-> r.sha]]
                  /\ attempt' = [attempt EXCEPT ![BootTask] = 1]
                  /\ hist' = [hist EXCEPT ![BootTask] =
                                [NoHist EXCEPT !.intent = default_data,
                                               !.why = "created"]]
                  /\ UNCHANGED <<data, sha>>
             ELSE /\ data' = r.doc
                  /\ sha' = r.sha
                  /\ pc' = [pc EXCEPT ![BootTask] = "loaded"]
                  /\ hist' = [hist EXCEPT ![BootTask].why = "found"]
                  /\ UNCHANGED <<req, attempt>>
    /\ UNCHANGED <<remote, remoteSha, nextTok, resp, envVars>>
    /\ UNCHANGED lifeVars

\* store.save of reload_data (line 685) returns or raises: reload_data has
\* no loop, a 409 is a RemoteStoreError like any other failure
ReloadSaved ==
    /\ pc[BootTask] = "putresp"
    /\ IF resp[BootTask].status = "ok"
       THEN /\ data' = req[BootTask].doc
            /\ sha' = SavedSha(resp[BootTask], req[BootTask].sha)
            /\ pc' = [pc EXCEPT ![BootTask] = "loaded"]
            /\ UNCHANGED hist
       ELSE /\ pc' = [pc EXCEPT ![BootTask] = "raised"]
            /\ hist' = [hist EXCEPT ![BootTask].why = "store_error"]
            /\ UNCHANGED <<data, sha>>
    /\ resp' = [resp EXCEPT ![BootTask] = NoResp]
    /\ UNCHANGED <<remote, remoteSha, nextTok, attempt, req, envVars>>
    /\ UNCHANGED lifeVars

InitReload ==
    /\ data = NoData
    /\ sha = NoSha
    /\ remote \in {MissingBlob, EmptyBlob}
                    \cup {Blob("json", d) : d \in StoreDocs}
    /\ remoteSha = IF remote.state = "missing" THEN NoSha ELSE 1
    /\ nextTok = 2
    /\ pc = [t \in Tasks |-> IF t = BootTask THEN "boot" ELSE "idle"]
    /\ attempt = [t \in Tasks |-> 0]
    /\ req = [t \in Tasks |-> NoReq]
    /\ resp = [t \in Tasks |-> NoResp]
    /\ hist = [t \in Tasks |-> NoHist]
    /\ extCount = 0
    /\ calls = 0
    /\ InitLife

NextReload ==
    \/ ReloadLoad
    \/ PutServe(BootTask)
    \/ ReloadSaved
    \/ ExtWrite
    \/ ExtDelete

\* The start of the bot
SpecReload == InitReload /\ [][NextReload]_vars

---------------------------------------------------------------------------
(* Claims about the document store *)

\* C1: when save_data returns, the document its accepted PUT stored is the
\* in-memory document of that moment; its settings, active and archive are
\* the ones the caller had in memory when it called save_data, whatever
\* other writers committed in between; every other top-level field is the
\* caller's when no conflict occurred and otherwise the one of the document
\* fetched last (of the default document when that fetch found no content).
C1_InMemoryWins ==
    \A t \in Tasks :
        pc[t] = "returned" =>
            /\ hist[t].accepted
            /\ hist[t].putDoc = data
            /\ hist[t].putDoc.settings = hist[t].intent.settings
            /\ hist[t].putDoc.active = hist[t].intent.active
            /\ hist[t].putDoc.archive = hist[t].intent.archive
            /\ hist[t].putDoc.version =
                   IF hist[t].conflicts = 0
                   THEN hist[t].intent.version
                   ELSE hist[t].base.version

\* C1 witness: a call that returned after two conflicts, the document
\* fetched last differing from the caller's in active and in version.
C1_Witness ==
    \E t \in Tasks :
        /\ pc[t] = "returned"
        /\ hist[t].conflicts >= 2
        /\ hist[t].base.active # hist[t].intent.active
        /\ hist[t].base.settings # hist[t].intent.settings
        /\ hist[t].base.version # hist[t].intent.version

\* C2: save_data returns only after one of its PUTs was accepted; that PUT
\* changed the token of the remote object, self.sha is the token the store
\* answered with, and no PUT is accepted whose token is not the one of the
\* stored object.
C2_ReturnMeansAccepted ==
    \A t \in Tasks :
        /\ hist[t].accepted => hist[t].putReqSha = hist[t].putOldSha
        /\ pc[t] = "returned" =>
              /\ hist[t].accepted
              /\ hist[t].putNewSha # hist[t].putOldSha
              /\ sha = hist[t].putNewSha

\* C2 witness: a call that returned after a stale PUT had been refused.
C2_Witness ==
    \E t \in Tasks :
        /\ pc[t] = "returned"
        /\ hist[t].conflicts >= 1
        /\ hist[t].accepted
        /\ sha = hist[t].putNewSha

\* C3: save_data makes at most six PUT attempts; after the sixth conflict
\* it sends no further PUT and raises; it returns only after fewer than six
\* conflicts; and every call ends (returns or raises).
C3_Attempts ==
    \A t \in Tasks :
        /\ attempt[t] <= MaxAttempts
        /\ hist[t].conflicts <= attempt[t]
        /\ hist[t].conflicts = MaxAttempts => pc[t] \in {"get", "getresp", "raised"}
        /\ pc[t] = "returned" => hist[t].conflicts < MaxAttempts
        /\ (pc[t] = "raised" /\ hist[t].why = "exhausted") =>
               hist[t].conflicts = MaxAttempts

\* C3, with termination: the bound on the attempts holds in every state
\* and every save_data call that sent a PUT returns or raises.
C3_BoundedRetry ==
    /\ []C3_Attempts
    /\ \A t \in SaveTasks :
          (pc[t] = "put") ~> (pc[t] \in {"returned", "raised"})

\* C3 witness: a call that raised because all six PUTs met a conflict.
C3_Witness ==
    \E t \in Tasks :
        /\ pc[t] = "raised"
        /\ hist[t].why = "exhausted"
        /\ hist[t].conflicts = MaxAttempts
        /\ attempt[t] = MaxAttempts

\* C23: when reload_data found the remote object absent or empty and has
\* returned, the store was written once, with the default document
\* {version 1, settings.allowed_role_ids = [], active = null, archive = []},
\* and the document and sha in memory are that document and the token the
\* store returned for it; the remote object holds that document until
\* another writer commits.
C23_DefaultCreated ==
    (pc[BootTask] = "loaded" /\ hist[BootTask].why = "created") =>
        /\ hist[BootTask].accepted
        /\ attempt[BootTask] = 1
        /\ hist[BootTask].putOldState \in {"missing", "empty"}
        /\ hist[BootTask].putDoc =
              [version |-> 1, settings |-> [allowed_role_ids |-> << >>],
               active |-> << >>, archive |-> << >>]
        /\ data = hist[BootTask].putDoc
        /\ sha = hist[BootTask].putNewSha
        /\ sha # NoSha
        /\ remoteSha = sha => remote = Blob("json", data)

\* reload_data created the default document, from an absent object
C23_Witness ==
    /\ pc[BootTask] = "loaded"
    /\ hist[BootTask].why = "created"
    /\ hist[BootTask].putOldState = "missing"
    /\ remote = Blob("json", data)

\* a is an initial part of b
IsPrefix(a, b) == Len(a) <= Len(b) /\ SubSeq(b, 1, Len(a)) = a

\* The archive of the remote object; an absent or empty object has none
RemoteArchive(b) == IF b.state = "json" THEN b.doc.archive ELSE << >>

\* The step is a PUT of this process that the endpoint accepted
AcceptedPut ==
    \E t \in Tasks :
        /\ pc[t] = "put"
        /\ pc'[t] = "putresp"
        /\ resp'[t].status = "ok"

\* C24: the archive is append-only: every operation, including the
\* conflict merge of save_data, leaves the existing archive entries
\* unchanged and in place, in memory and in the remote document this
\* process writes.
C24_ArchiveAppendOnly ==
    [][/\ IsPrefix(data.archive, data'.archive)
       /\ AcceptedPut =>
              IsPrefix(RemoteArchive(remote), RemoteArchive(remote'))]_vars

\* C24 as the code has it: the archive is append-only in memory, and every
\* document this process writes carries the archive in memory, whatever
\* archive the remote document held.
C24_MemoryArchiveAppendOnly ==
    [][/\ IsPrefix(data.archive, data'.archive)
       /\ AcceptedPut =>
              /\ RemoteArchive(remote') = data.archive
              /\ data'.archive = data.archive]_vars

\* save_data returned after a conflict in which the archive fetched was
\* not the one in memory, the handler having appended an entry
C24_Witness ==
    /\ pc[1] = "returned"
    /\ hist[1].conflicts > 0
    /\ hist[1].base.archive # data.archive
    /\ data.archive # << >>
    /\ data.archive[Len(data.archive)] = NewEntry
    /\ remote = Blob("json", data)

---------------------------------------------------------------------------
(* Claims about the life of a run *)

Phases == <<"setup_suggestions", "open", "locked", "reveal_in_progress">>
PhaseOf(status) == CHOOSE i \in DOMAIN Phases : Phases[i] = status

\* C4: the document, in memory and in the store, holds at most one active
\* run; and in every state with an active run, cmd_create by anyone leaves
\* the document as it is and writes nothing to the store, and answers an
\* actor who has access that a run is already active.
C4_OneActiveRun ==
    /\ Len(data.active) <= 1
    /\ Len(remote.doc.active) <= 1
    /\ data.active # None =>
          \A actor \in Actors :
              /\ cmd_create(actor).data = data
              /\ cmd_create(actor).puts = << >>
              /\ cmd_create(actor).nextRun = nextRun
              /\ has_access(actor) =>
                     cmd_create(actor).msg = "already_active"

\* C4 witness: a run is open with an answer stored, and /awards create by
\* an administrator is answered that a run is already active.
C4_Witness ==
    /\ data.active # None
    /\ ActiveRun.status = "open"
    /\ ActiveRun.submissions # << >>
    /\ \E actor \in Actors :
          /\ has_access(actor)
          /\ cmd_create(actor) = Refused("already_active")

\* C5: every step leaves the active run's status where it is or moves it
\* to the next phase of setup_suggestions, open, locked,
\* reveal_in_progress; a new active run starts in setup_suggestions; and
\* the active slot is emptied only together with the append of the run's
\* archive entry.
C5_StatusOrder ==
    [][ /\ (data.active = None /\ data'.active # None) =>
              data'.active[1].status = "setup_suggestions"
        /\ (data.active # None /\ data'.active # None) =>
              /\ data'.active[1].id = ActiveRun.id
              /\ PhaseOf(data'.active[1].status) - PhaseOf(ActiveRun.status)
                     \in {0, 1}
        /\ (data.active # None /\ data'.active = None) =>
              /\ Len(data'.archive) = Len(data.archive) + 1
              /\ data'.archive[Len(data'.archive)].id = ActiveRun.id
      ]_vars

\* C5 witness: a run that went through every phase is archived with its
\* results.
C5_Witness ==
    /\ data.active = None
    /\ data.archive # << >>
    /\ data.archive[1].results # None
    /\ Len(data.archive[1].questions) = MaxQuestions

\* C6: a run that is open, locked or revealing has a question; and on a
\* run in setup open_submissions answers a refusal and leaves memory, store
\* and views as they are when the run has no question, and otherwise
\* leaves the run open with the same questions.
C6_OpenNeedsQuestion ==
    /\ (data.active # None /\ ActiveRun.status # "setup_suggestions") =>
          ActiveRun.questions # << >>
    /\ \A rid \in KnownRuns, found \in BOOLEAN :
          InSetup(run_by_id(rid)) =>
              IF ActiveRun.questions = << >>
              THEN open_submissions(rid, found) = Refused("no_questions")
              ELSE /\ open_submissions(rid, found).data.active[1].status
                          = "open"
                   /\ open_submissions(rid, found).data.active[1].questions
                          = ActiveRun.questions

\* C6 witness: a run in setup whose only question was removed again, on
\* which open_submissions is refused.
C6_Witness ==
    /\ InSetup(data.active)
    /\ ActiveRun.questions = << >>
    /\ now > 0
    /\ open_submissions(ActiveRun.id, TRUE).msg = "no_questions"

\* C7: a step that empties the active slot of a run in reveal_in_progress
\* is a step of reveal_next or of end_reveal_dump (so end_run_no_reveal
\* has an effect only in setup, open and locked).
C7_RevealEndsByNextOrDump ==
    [][ (Revealing(data.active) /\ data'.active = None) =>
            (RevealNext \/ EndRevealDump) ]_vars

\* C8: a step from a state where the active run is open, locked or in
\* reveal_in_progress leaves the run's questions as they are.
C8_QuestionsFrozen ==
    [][ (/\ data.active # None
         /\ ActiveRun.status # "setup_suggestions"
         /\ data'.active # None) =>
            data'.active[1].questions = ActiveRun.questions ]_vars

\* C9: a step from a state where the active run is locked or in
\* reveal_in_progress leaves the run's submissions as they are.
C9_SubmissionsFrozen ==
    [][ (/\ data.active # None
         /\ ActiveRun.status \in {"locked", "reveal_in_progress"}
         /\ data'.active # None) =>
            data'.active[1].submissions = ActiveRun.submissions ]_vars

\* C10: results are absent before reveal_in_progress, and a step from a
\* state where the active run is in reveal_in_progress leaves
\* reveal.computed_results as it is and does not lower
\* reveal.current_index.
C10_ResultsFrozen ==
    [][ /\ (data.active # None
            /\ ActiveRun.status # "reveal_in_progress") =>
               ActiveRun.reveal.computed_results = None
        /\ (Revealing(data.active) /\ data'.active # None) =>
               /\ data'.active[1].reveal.computed_results
                      = ActiveRun.reveal.computed_results
               /\ data'.active[1].reveal.current_index
                      >= ActiveRun.reveal.current_index ]_vars

---------------------------------------------------------------------------
(* Claims about what the store holds *)

\* C11: in every document the remote store holds, each run created so far
\* is either the active run or has an archive entry with its id, never
\* both and never neither.
C11_ActiveXorArchived ==
    \A rid \in KnownRuns :
        LET active == /\ remote.doc.active # None
                      /\ remote.doc.active[1].id = rid
            archived == \E i \in DOMAIN remote.doc.archive :
                            remote.doc.archive[i].id = rid
        IN active # archived

\* C19: the remote store never holds a document whose active run is in
\* reveal_in_progress with reveal mode all.
C19_AllModeOneWrite ==
    ~ /\ remote.doc.active # None
      /\ remote.doc.active[1].status = "reveal_in_progress"
      /\ remote.doc.active[1].reveal.mode = Some("all")

\* C20: in step mode on a run with n questions of which k - 1 were revealed
\* by the invocations so far, the next reveal_next emits exactly the k-th
\* question's result in question order; for k < n it leaves the run active
\* in reveal_in_progress, and for k = n it appends the archive entry and
\* clears the active run.
C20_StepRevealsInOrder ==
    (/\ Revealing(data.active)
     /\ ActiveRun.reveal.mode = Some("step")
     /\ ActiveRun.reveal.current_index < Len(ActiveRun.questions)) =>
        LET n == Len(ActiveRun.questions)
            k == ActiveRun.reveal.current_index + 1
            out == reveal_next(ActiveRun.id, TRUE)
        IN /\ out.emit = <<PerQuestion(SortedQuestions(ActiveRun)[k],
                                       ActiveRun.submissions)>>
           /\ k < n =>
                  /\ Revealing(out.data.active)
                  /\ out.data.archive = data.archive
           /\ k = n =>
                  /\ out.data.active = None
                  /\ Len(out.data.archive) = Len(data.archive) + 1
                  /\ out.data.archive[Len(out.data.archive)].id
                        = ActiveRun.id

\* C21: end_reveal_dump on a run in reveal_in_progress with current_index
\* = i emits exactly the results at positions i..n-1 in order, none of
\* which was sent to the results channel before, then archives the run and
\* clears active; invoked when the status is not reveal_in_progress it
\* emits nothing and changes nothing.
C21_DumpEmitsTheRest ==
    \A rid \in KnownRuns :
        LET r == run_by_id(rid)
            out == end_reveal_dump(rid, TRUE)
        IN IF Revealing(r)
           THEN LET i == r[1].reveal.current_index
                    results == r[1].reveal.computed_results[1].per_question
                IN /\ out.emit = [j \in 1..(Len(results) - i) |->
                                     results[i + j]]
                   /\ \A j \in (i + 1)..Len(results) :
                          <<rid, j>> \notin ui.results
                   /\ out.data.active = None
                   /\ Len(out.data.archive) = Len(data.archive) + 1
                   /\ out.data.archive[Len(out.data.archive)].id = rid
                   /\ out.puts # << >>
                   /\ out.puts[Len(out.puts)] = out.data
           ELSE /\ out.emit = << >>
                /\ out.data = data
                /\ out.puts = << >>
                /\ out.ui = ui

\* The entry a handler appended to the archive
LastEntry(out) == out.data.archive[Len(out.data.archive)]

\* C22: end_run_no_reveal appends an archive entry whose results is null,
\* and finalization after a reveal (mode all, the last reveal_next, the
\* dump) appends an entry whose results equal the run's
\* reveal.computed_results: the ones _do_reveal has just computed in mode
\* all, the ones the run holds for reveal_next and the dump.
C22_ArchiveCarriesResults ==
    \A rid \in KnownRuns :
        LET r == run_by_id(rid)
        IN r # None =>
            /\ LastEntry(end_run_no_reveal(rid)).id = rid
            /\ LastEntry(end_run_no_reveal(rid)).results = None
            /\ rid \in ui.chooser =>
                  LET out == do_reveal(rid, "all", TRUE)
                  IN /\ Len(out.data.archive) = Len(data.archive) + 1
                     /\ LastEntry(out).id = rid
                     /\ LastEntry(out).results = Some(compute_results(r[1]))
            /\ Revealing(r) =>
                  LET out == end_reveal_dump(rid, TRUE)
                  IN /\ Len(out.data.archive) = Len(data.archive) + 1
                     /\ LastEntry(out).id = rid
                     /\ LastEntry(out).results = r[1].reveal.computed_results
            /\ (/\ Revealing(r)
                /\ r[1].reveal.current_index + 1
                      = Len(r[1].reveal.computed_results[1].per_question)) =>
                  LET out == reveal_next(rid, TRUE)
                  IN /\ Len(out.data.archive) = Len(data.archive) + 1
                     /\ LastEntry(out).id = rid
                     /\ LastEntry(out).results = r[1].reveal.computed_results

\* A run was archived by a finalization after its reveal
C22_Witness ==
    /\ data.active = None
    /\ data.archive # << >>
    /\ data.archive[Len(data.archive)].results # None
    /\ remote.doc = data

---------------------------------------------------------------------------
(* Claims about management *)

\* What the buttons of the manage panel, and of the views reached from it,
\* do for run rid when pressed
PanelPresses(rid) ==
    {open_submissions(rid, TRUE), lock_submissions(rid),
     end_run_no_reveal(rid), set_deadline_days(rid, DEFAULT_SUBMISSION_DAYS),
     create_question_short_text(rid),
     set_channel(rid, "results", None),
     add_allowed_roles(RoleIds), set_allowed_roles({})}

\* C12: a management action takes effect only if has_access holds for the
\* acting user at that moment: for an actor the manage panel was shown to
\* and who has no access now, no button of the panel changes the
\* document or writes to the store.
C12_AccessOnEveryAction ==
    \A actor \in ui.panel :
        ~has_access(actor) =>
            \A rid \in KnownRuns : \A out \in PanelPresses(rid) :
                out.data = data /\ out.puts = << >>

C14_TriageOneWay ==
    [][ (/\ data.active # None
         /\ data'.active # None
         /\ data'.active[1].id = ActiveRun.id) =>
            LET old == ActiveRun.suggestions
                new == data'.active[1].suggestions
            IN /\ Len(new) = Len(old)
               /\ \A i \in DOMAIN old :
                      /\ new[i].id = old[i].id
                      /\ old[i].state # "pending" => new[i] = old[i]
                      /\ new[i].state # old[i].state =>
                             new[i].state \in {"approved", "rejected"}
               /\ new # old =>
                      data'.active[1].questions = ActiveRun.questions
      ]_vars

\* C14 witness: one suggestion was approved and the other rejected, the
\* review view of the rejected one is still shown, its "Use as Question"
\* button is answered that the suggestion is not available, and the run
\* has a question.
C14_Witness ==
    /\ data.active # None
    /\ ActiveRun.questions # << >>
    /\ \E i, j \in DOMAIN ActiveRun.suggestions :
          /\ ActiveRun.suggestions[i].state = "approved"
          /\ ActiveRun.suggestions[j].state = "rejected"
          /\ <<ActiveRun.id, ActiveRun.suggestions[j].id>> \in ui.review
          /\ approve_suggestion(ActiveRun.id, ActiveRun.suggestions[j].id)
                 = Refused("not_available")

\* C16: while the active run is in reveal_in_progress, set_channel with
\* any key and channel leaves the document as it is, writes nothing to the
\* store and answers that channels cannot be changed; and no step from
\* such a state changes a channel of the run.
C16_NoChannelChangeInReveal ==
    [][ Revealing(data.active) =>
            /\ \A key \in ChannelKeys, ch \in ChannelValues :
                   set_channel(ActiveRun.id, key, ch)
                       = Refused("channels_locked")
            /\ data'.active # None =>
                   data'.active[1].channels = ActiveRun.channels ]_vars

\* C16 witness: a reveal is in progress on a run whose results channel was
\* set, and the panel from which channels are set is shown.
C16_Witness ==
    /\ Revealing(data.active)
    /\ ActiveRun.channels.results # None
    /\ ActiveRun.reveal.current_index > 0
    /\ ui.panel # {}

\* C17 as claimed: a step that changes the suggestions channel of the
\* active run starts from a state where the run is in setup.
C17_SuggestionsChannelInSetup ==
    [][ (/\ data.active # None
         /\ data'.active # None
         /\ data'.active[1].channels.suggestions
                # ActiveRun.channels.suggestions) =>
            ActiveRun.status = "setup_suggestions" ]_vars

\* C17, amended: a step that changes the suggestions channel of the active
\* run starts from a state where the run is in setup, open or locked, and
\* in each of these set_channel with key suggestions sets the channel to
\* the one given and saves it.
C17_SuggestionsChannelUntilReveal ==
    [][ /\ (/\ data.active # None
            /\ data'.active # None
            /\ data'.active[1].channels.suggestions
                   # ActiveRun.channels.suggestions) =>
               ActiveRun.status \in {"setup_suggestions", "open", "locked"}
        /\ (data.active # None /\ ~Revealing(data.active)) =>
               \A ch \in ChannelValues :
                   LET out == set_channel(ActiveRun.id, "suggestions", ch)
                   IN /\ out.data.active[1].channels.suggestions = ch
                      /\ out.puts = <<out.data>> ]_vars

\* C17 witness: submissions are locked, the suggestions channel is set,
\* and the "Unset" button for it is accepted.
C17_Witness ==
    /\ data.active # None
    /\ ActiveRun.status = "locked"
    /\ ActiveRun.channels.suggestions # None
    /\ ui.panel # {}
    /\ set_channel(ActiveRun.id, "suggestions", None).msg = "channels"

\* Every interaction has_access can be given: in a guild by a Member or
\* not, with the administrator permission or not, with any of the roles
\* 1 and 2
AnyActor ==
    [inGuild : BOOLEAN, admin : BOOLEAN, roles : SUBSET {1, 2}]

\* C25: has_access is true exactly when the actor is a guild member who has
\* the administrator permission or holds at least one role of
\* settings.allowed_role_ids as they are now; with no allowed role only
\* administrators pass.
C25_AccessRule ==
    \A actor \in AnyActor :
        /\ has_access(actor) <=>
              /\ actor.inGuild
              /\ \/ actor.admin
                 \/ \E i \in DOMAIN data.settings.allowed_role_ids :
                        data.settings.allowed_role_ids[i] \in actor.roles
        /\ data.settings.allowed_role_ids = << >> =>
              (has_access(actor) <=> (actor.inGuild /\ actor.admin))

\* A role is allowed and the panel was shown to a member who holds it
C25_Witness ==
    /\ data.settings.allowed_role_ids = <<1>>
    /\ \E a \in ui.panel : ~a.admin /\ has_access(a)
    /\ ~has_access([inGuild |-> TRUE, admin |-> FALSE, roles |-> {2}])

\* C30: when show_suggestion_review shows a suggestion of a run, the index
\* it stores is within 0..n-1 for the n suggestions pending at that moment,
\* whatever index the cache held; the suggestion shown is the pending one at
\* that index; with advance the index is the cached one plus 1 modulo n,
\* without it the cached one brought into 0..n-1; and with no pending
\* suggestion the cache and the views are left as they are.
C30_ReviewIndexInRange ==
    \A rid \in KnownRuns, advance \in BOOLEAN :
        LET out == show_suggestion_review(rid, advance)
            r == run_by_id(rid)
        IN  IF r = None THEN out.msg = "no_active_run"
            ELSE LET pending == Pending(r[1].suggestions)
                     n == Len(pending)
                     old == cache.sug_idx
                 IN  IF n = 0
                     THEN /\ out.msg = "no_pending"
                          /\ out.cache = cache
                          /\ out.ui = ui
                          /\ out.puts = << >>
                     ELSE /\ out.msg = "review"
                          /\ out.cache.sug_idx \in 0..(n - 1)
                          /\ advance => out.cache.sug_idx = (old + 1) % n
                          /\ ~advance =>
                                out.cache.sug_idx =
                                    IF old > n - 1 THEN n - 1 ELSE old
                          /\ out.ui.review =
                                ui.review
                                \cup {<<rid, pending[out.cache.sug_idx + 1].id>>}
                          /\ out.data = data

\* C30 witness: the second of two pending suggestions was shown and then
\* triaged, so the cached index 1 is past the one suggestion still pending,
\* and the review shows that one at index 0 with advance and without.
C30_Witness ==
    /\ data.active # None
    /\ Len(Pending(data.active[1].suggestions)) = 1
    /\ cache.sug_idx = 1
    /\ \A advance \in BOOLEAN :
        LET out == show_suggestion_review(data.active[1].id, advance) IN
        /\ out.cache.sug_idx = 0
        /\ <<data.active[1].id, Pending(data.active[1].suggestions)[1].id>>
                \in out.ui.review

---------------------------------------------------------------------------
(* Claims about questions and answers *)

\* order of each question, in list order
Orders(qs) == [i \in DOMAIN qs |-> qs[i].order]

\* C15: the order values of the active run's n questions are exactly
\* 0..n-1, and removing the question with order 1 from a list of three
\* questions leaves two questions with the orders 0 and 1.
C15_DenseOrders ==
    data.active # None =>
        LET qs == ActiveRun.questions IN
        /\ Range(Orders(qs)) = 0..(Len(qs) - 1)
        /\ (InSetup(data.active) /\ Len(qs) = 3) =>
               \A i \in DOMAIN qs :
                   qs[i].order = 1 =>
                       Orders(remove_question(ActiveRun.id, qs[i].id)
                                  .data.active[1].questions) = <<0, 1>>

\* C18: a submission of the active run whose submitted_at is set has an
\* answer for every required question of the run; and "Submit All" by a
\* member who misses a required answer leaves the document, the store and
\* the views as they are and answers that answers are missing.
C18_SubmittedIsComplete ==
    data.active # None =>
        /\ \A i \in DOMAIN ActiveRun.submissions :
               ActiveRun.submissions[i].submitted_at # None =>
                   Missing(ActiveRun, ActiveRun.submissions[i].uid) = {}
        /\ \A w \in ui.wizard :
               (/\ run_by_id(w[2]) # None
                /\ ~DeadlinePassed(ActiveRun)
                /\ Missing(ActiveRun, w[1]) # {}) =>
                   wizard_submit(w[1], w[2]) = Refused("missing")

---------------------------------------------------------------------------
(* Claims about the results *)

\* The votes a submission gives in question q, each with its position in
\* the answer: one per listed member of a member pick, one for the option
\* of a multiple choice, none for a short text or without an answer
VotesIn(q, sub) ==
    IF ~HasAnswer(sub.answers, q.id) THEN {}
    ELSE LET a == GetAnswer(sub.answers, q.id)
         IN IF q.type = "user_select"
            THEN IF a.list THEN {<<j, <<a.v[j]>>>> : j \in DOMAIN a.v}
                 ELSE {<<1, a.v>>}
            ELSE IF q.type = "multi_choice" THEN {<<1, a.v>>}
            ELSE {}

\* The votes of question q: <<submission, position, key>>
AllVotes(q, subs) ==
    UNION {{<<s, v[1], v[2]>> : v \in VotesIn(q, subs[s])} :
              s \in DOMAIN subs}

KeysOf(votes) == {v[3] : v \in votes}
CountOf(votes, k) == Cardinality({v \in votes : v[3] = k})

\* The results kept in the run that is being revealed
Kept == ActiveRun.reveal.computed_results[1]

\* C26: compute_results counts per question by type: a list-valued answer
\* of a member pick adds one count to each listed member and as many to the
\* total, a single-valued one adds one count to its member, a multiple
\* choice answer one count to its option, a short-text answer only one to
\* the total, with no ranked key; a submission without an answer for the
\* question adds nothing.
C26_VotesCounted ==
    Revealing(data.active) =>
        \A i \in DOMAIN ActiveRun.questions :
            LET q == ActiveRun.questions[i]
                subs == ActiveRun.submissions
                p == Kept.per_question[i]
                votes == AllVotes(q, subs)
                tally == Tally(VotesFor(q, subs))
            IN /\ p.qid = q.id
               /\ {tally[j].key : j \in DOMAIN tally} = KeysOf(votes)
               /\ Len(tally) = Cardinality(KeysOf(votes))
               /\ \A j \in DOMAIN tally :
                      tally[j].count = CountOf(votes, tally[j].key)
               /\ p.unique_nominees = Cardinality(KeysOf(votes))
               /\ \A j \in DOMAIN p.top :
                      p.top[j].count = CountOf(votes, p.top[j].key)
               /\ p.total_votes =
                      IF q.type = "user_select" THEN Cardinality(votes)
                      ELSE Cardinality({s \in DOMAIN subs :
                              HasAnswer(subs[s].answers, q.id)})
               /\ q.type = "short_text" =>
                      (p.top = << >> /\ p.unique_nominees = 0)

\* The results of a member pick with max 2 in which two lists named four
\* members and one submission had no answer, and of a short text that two
\* submissions answered
C26_Witness ==
    /\ Revealing(data.active)
    /\ Len(ActiveRun.questions) = 2
    /\ ActiveRun.questions[1].type = "user_select"
    /\ ActiveRun.questions[1].max = 2
    /\ ~HasAnswer(ActiveRun.submissions[2].answers, 0)
    /\ Kept.per_question[1].total_votes = 4
    /\ Kept.per_question[1].unique_nominees = 4
    /\ ActiveRun.questions[2].type = "short_text"
    /\ Kept.per_question[2].total_votes = 2

\* The highest count among the keys ks, 0 when there is none
TopCount(votes, ks) ==
    IF ks = {} THEN 0
    ELSE CHOOSE c \in {CountOf(votes, k) : k \in ks} :
            \A k \in ks : CountOf(votes, k) <= c

\* The count of rank 2: the highest among the keys but one of rank 1
SecondCount(votes) ==
    LET ks == KeysOf(votes)
        k1 == CHOOSE k \in ks : CountOf(votes, k) = TopCount(votes, ks)
    IN TopCount(votes, ks \ {k1})

\* A member pick with max 1 and the answers A, A and B
ExampleAAB ==
    LockedDoc(<<Question(0, "user_select", 1, << >>, 0)>>,
              <<<<Answer(FALSE, <<"A">>)>>, <<Answer(FALSE, <<"A">>)>>,
                <<Answer(FALSE, <<"B">>)>>>>).active[1]

\* C27: for every question the closest gap is the count of rank 1 minus
\* the count of rank 2 when at least two distinct keys received votes and
\* absent otherwise, and landslide is true exactly when total votes > 0 and
\* the top count is at least 0.6 of the total; for a member pick with max 1
\* and the answers A, A, B the ranking is [(A,2),(B,1)], the gap is 1 and
\* landslide is true.
C27_GapAndLandslide ==
    /\ Revealing(data.active) =>
          \A i \in DOMAIN ActiveRun.questions :
              LET q == ActiveRun.questions[i]
                  p == Kept.per_question[i]
                  votes == AllVotes(q, ActiveRun.submissions)
                  ks == KeysOf(votes)
              IN /\ IF Cardinality(ks) >= 2
                    THEN /\ p.closest # None
                         /\ p.closest[1].first = TopCount(votes, ks)
                         /\ p.closest[1].second = SecondCount(votes)
                         /\ p.closest[1].gap =
                                TopCount(votes, ks) - SecondCount(votes)
                    ELSE p.closest = None
                 /\ p.landslide <=>
                        /\ p.total_votes > 0
                        /\ 10 * TopCount(votes, ks) >= 6 * p.total_votes
    /\ LET q == ExampleAAB.questions[1]
           subs == ExampleAAB.submissions
           p == PerQuestion(q, subs)
       IN /\ Ranked(Tally(VotesFor(q, subs))) =
                <<[key |-> <<"A">>, count |-> 2],
                  [key |-> <<"B">>, count |-> 1]>>
          /\ p.closest # None
          /\ p.closest[1].gap = 1
          /\ p.landslide

\* The results of the run of the example
C27_Witness ==
    /\ Revealing(data.active)
    /\ ActiveRun.questions = ExampleAAB.questions
    /\ ActiveRun.submissions = ExampleAAB.submissions
    /\ Kept.per_question[1].closest # None
    /\ Kept.per_question[1].closest[1].gap = 1
    /\ Kept.per_question[1].landslide

\* When key k is first encountered: submissions in order, then the
\* positions of a list
FirstSeen(votes, k) ==
    LET at == {8 * v[1] + v[2] : v \in {w \in votes : w[3] = k}}
    IN CHOOSE n \in at : \A m \in at : n <= m

\* Key k ranks before key l
RanksBefore(votes, k, l) ==
    \/ CountOf(votes, k) > CountOf(votes, l)
    \/ /\ CountOf(votes, k) = CountOf(votes, l)
       /\ FirstSeen(votes, k) < FirstSeen(votes, l)

\* C28: for every question the top list is the keys sorted by count in
\* descending order, keys with equal counts in first-encountered order, cut
\* to the first DEFAULT_TOP_N = 3 entries, each with pct = count / total
\* votes * 100 rounded to 2 decimals (kept in hundredths of a percent),
\* total votes counting every fan-out vote; the list is empty when there
\* are no votes.
C28_TopList ==
    /\ DEFAULT_TOP_N = 3
    /\ Revealing(data.active) =>
          \A i \in DOMAIN ActiveRun.questions :
              LET q == ActiveRun.questions[i]
                  top == Kept.per_question[i].top
                  votes == AllVotes(q, ActiveRun.submissions)
                  ks == KeysOf(votes)
                  total == Cardinality(votes)
              IN /\ Len(top) = Min2(3, Cardinality(ks))
                 /\ \A j \in DOMAIN top :
                        /\ top[j].key \in ks
                        /\ top[j].count = CountOf(votes, top[j].key)
                        /\ 2 * top[j].pct * total
                              <= 2 * 10000 * top[j].count + total
                        /\ 2 * top[j].pct * total
                              >= 2 * 10000 * top[j].count - total
                        /\ \A l \in DOMAIN top :
                               j < l => RanksBefore(votes, top[j].key,
                                                    top[l].key)
                        /\ \A k \in ks \ {top[l].key : l \in DOMAIN top} :
                               RanksBefore(votes, top[j].key, k)

\* The results of a member pick with max 2 whose four keys were cut to
\* three, and of a member pick with max 1 whose percentages were rounded
C28_Witness ==
    /\ Revealing(data.active)
    /\ Len(ActiveRun.questions) = 2
    /\ Kept.per_question[1].unique_nominees = 4
    /\ Kept.per_question[1].total_votes = 5
    /\ Len(Kept.per_question[1].top) = 3
    /\ Kept.per_question[1].top[2].count = Kept.per_question[1].top[3].count
    /\ Len(Kept.per_question[2].top) = 2
    /\ Kept.per_question[2].top[1].pct = 6667
    /\ Kept.per_question[2].top[2].pct = 3333

\* The nominations of the run: the votes of its member picks, each with
\* the position of its question
Nominations(run) ==
    UNION {{<<i, v[1], v[2], v[3]>> :
                v \in AllVotes(run.questions[i], run.submissions)} :
           i \in {j \in DOMAIN run.questions :
                    run.questions[j].type = "user_select"}}

NominationsOf(noms, k) == Cardinality({n \in noms : n[4] = k})

\* When member k is first nominated: questions in order, then submissions,
\* then the positions of a list
FirstNominated(noms, k) ==
    LET at == {64 * n[1] + 8 * n[2] + n[3] : n \in {m \in noms : m[4] = k}}
    IN CHOOSE n \in at : \A m \in at : n <= m

\* C29: the closest race is the question with the smallest closest gap
\* among the questions that have one, the most chaotic the question with the
\* most distinct keys, the most nominated the member with the highest
\* nomination count summed over the member-pick answers of all questions;
\* of several that tie, the one first encountered in question order is
\* taken.
C29_ChaosMetrics ==
    Revealing(data.active) =>
        LET per == Kept.per_question
            chaos == Kept.chaos
            close == {i \in DOMAIN per : per[i].closest # None}
            noms == Nominations(ActiveRun)
            named == {n[4] : n \in noms}
        IN /\ IF close = {} THEN chaos.closest_race = None
              ELSE \E i \in close :
                      /\ chaos.closest_race = Some(per[i])
                      /\ \A j \in close :
                             \/ per[i].closest[1].gap < per[j].closest[1].gap
                             \/ /\ per[i].closest[1].gap
                                     = per[j].closest[1].gap
                                /\ i <= j
           /\ \E i \in DOMAIN per :
                  /\ chaos.most_chaotic = Some(per[i])
                  /\ \A j \in DOMAIN per :
                         \/ per[i].unique_nominees > per[j].unique_nominees
                         \/ /\ per[i].unique_nominees
                                 = per[j].unique_nominees
                            /\ i <= j
           /\ IF named = {} THEN chaos.most_nominated_user = None
              ELSE \E k \in named :
                      /\ chaos.most_nominated_user = Some(k)
                      /\ \A l \in named \ {k} :
                             \/ NominationsOf(noms, k)
                                    > NominationsOf(noms, l)
                             \/ /\ NominationsOf(noms, k)
                                     = NominationsOf(noms, l)
                                /\ FirstNominated(noms, k)
                                     < FirstNominated(noms, l)

\* The results of two member picks that tie in gap and in distinct keys,
\* with two members that tie in nominations over both questions
C29_Witness ==
    /\ Revealing(data.active)
    /\ Len(ActiveRun.questions) = 2
    /\ Kept.per_question[1].closest # None
    /\ Kept.per_question[2].closest # None
    /\ Kept.per_question[1].closest[1].gap
          = Kept.per_question[2].closest[1].gap
    /\ Kept.per_question[1].unique_nominees
          = Kept.per_question[2].unique_nominees
    /\ Kept.chaos.closest_race = Some(Kept.per_question[1])
    /\ Kept.chaos.most_chaotic = Some(Kept.per_question[1])
    /\ Kept.chaos.most_nominated_user = Some(<<"B">>)
    /\ NominationsOf(Nominations(ActiveRun), <<"A">>)
          = NominationsOf(Nominations(ActiveRun), <<"B">>)
    /\ Kept.per_question[1].top[1].key = <<"A">>

\* The run with submitted_at of every submission set to at
Marked(run, at) ==
    [run EXCEPT !.submissions =
        [s \in DOMAIN run.submissions |->
            [run.submissions[s] EXCEPT !.submitted_at = at]]]

\* C40: compute_results counts the answers of every submission that was
\* started, whether or not its submitted_at is set: the total of each
\* question is the number of votes (for a member pick) or of answers (for
\* the other types) over all submissions, the results are the same with
\* every submitted_at null as with every one set, and the submissions
\* count is the number of submissions started.
C40_UnsubmittedCounts ==
    data.active # None =>
        LET run == ActiveRun
            subs == run.submissions
            qs == SortedQuestions(run)
            results == compute_results(run)
        IN  /\ results.submissions = Len(subs)
            /\ Len(results.per_question) = Len(qs)
            /\ \A i \in DOMAIN qs :
                  results.per_question[i].total_votes =
                      IF qs[i].type = "user_select"
                      THEN Cardinality(AllVotes(qs[i], subs))
                      ELSE Cardinality({s \in DOMAIN subs :
                              HasAnswer(subs[s].answers, qs[i].id)})
            /\ results = compute_results(Marked(run, None))
            /\ results = compute_results(Marked(run, Stamp))

\* C40 witness: the run is being revealed; its one submission holds an
\* answer and was never submitted, and the results kept count one
\* submission and one vote for the first question.
C40_Witness ==
    /\ Revealing(data.active)
    /\ Len(ActiveRun.submissions) = 1
    /\ ActiveRun.submissions[1].submitted_at = None
    /\ ActiveRun.submissions[1].answers # << >>
    /\ Kept = compute_results(ActiveRun)
    /\ Kept.submissions = 1
    /\ Kept.per_question[1].total_votes = 1

---------------------------------------------------------------------------
(* Claims about refusals and failures *)

\* The replies that explain a refusal for the phase of the run
PhaseReplies ==
    {"questions_locked", "not_available", "reorder_locked", "remove_locked",
     "not_open", "lock_first", "no_reveal", "deadline_refused",
     "channels_locked"}

\* The handler left the document alone, wrote nothing and explained why
NoOp(out) ==
    /\ out.data = data
    /\ out.puts = << >>
    /\ out.emit = << >>
    /\ out.msg \in PhaseReplies

\* C31: an operation guarded by the phase, invoked on the active run in a
\* status it is not allowed in, leaves the document as it is, writes
\* nothing to the store and answers with an explanation: adding, moving and
\* removing a question outside setup, lock_submissions when not open, the
\* reveal when not locked, reveal_next and end_reveal_dump outside
\* reveal_in_progress, set_deadline_days outside setup and open, set_channel
\* during the reveal.
C31_PhaseViolationIsNoOp ==
    \A rid \in KnownRuns :
        LET r == run_by_id(rid) IN
        r # None =>
            LET st == r[1].status IN
            /\ st # "setup_suggestions" =>
                /\ NoOp(create_question_user_select(rid))
                /\ NoOp(create_question_short_text(rid))
                /\ NoOp(create_question_multi_choice(rid))
                /\ NoOp(finish_multi_choice(rid))
                /\ rid \in ui.select =>
                        \A n \in MaxOptions : NoOp(select_callback(rid, n))
                /\ \A qid \in QidInputs :
                        /\ NoOp(remove_question(rid, qid))
                        /\ \A delta \in {-1, 1} :
                                NoOp(move_question(rid, qid, delta))
            /\ st # "open" => NoOp(lock_submissions(rid))
            /\ st # "locked" =>
                /\ NoOp(reveal(rid))
                /\ rid \in ui.chooser =>
                        \A mode \in RevealModes :
                            NoOp(do_reveal(rid, mode, TRUE))
            /\ st # "reveal_in_progress" =>
                /\ NoOp(reveal_next(rid, TRUE))
                /\ NoOp(end_reveal_dump(rid, TRUE))
            /\ st \notin {"setup_suggestions", "open"} =>
                \A raw \in DayInputs : NoOp(set_deadline_days(rid, raw))
            /\ st = "reveal_in_progress" =>
                \A key \in ChannelKeys, ch \in ChannelValues :
                    NoOp(set_channel(rid, key, ch))

\* The document d holds value as the answer of member uid to question qid
\* of the active run rid
Stored(d, rid, uid, qid, value) ==
    /\ d.active # None
    /\ d.active[1].id = rid
    /\ HasKey(d.active[1].submissions, "uid", uid)
    /\ LET sub == d.active[1].submissions[
                    IndexOf(d.active[1].submissions, "uid", uid)]
       IN  /\ HasAnswer(sub.answers, qid)
           /\ GetAnswer(sub.answers, qid) = value

\* C32: a member who answers a control of the fill wizard is told "Saved"
\* only if the answer was stored in the document and written to the store;
\* when save_answer stores nothing (the run is not active any more, the
\* deadline has passed) the reply is not "Saved".
C32_SavedMeansStored ==
    \A w \in ui.wizard : \A qid \in QidInputs :
        \A value \in {Answer(FALSE, <<t>>) : t \in AnswerTexts} :
            LET out == answer_callback(w[1], w[2], qid, value) IN
            out.msg = "saved" =>
                /\ Stored(out.data, w[2], w[1], qid, value)
                /\ out.puts # << >>

---------------------------------------------------------------------------
(* Claims about handlers in flight at once *)

\* The positions of the results of run rid sent to the results channel
SentOf(rid) == {j \in 1..MaxQuestions : <<rid, j>> \in ui.results}

\* C33: however the reveal_next handlers of a run in step mode interleave
\* at their awaits, no handler sends a result that was sent before, the
\* results sent are those of the first questions in question order, none
\* left out, and reveal.current_index is at most the number of questions.
C33_EachResultOnce ==
    /\ \A t \in Tasks : ~fin[t].again
    /\ \A rid \in KnownRuns : \E k \in 0..MaxQuestions : SentOf(rid) = 1..k
    /\ data.active # None /\ ActiveRun.reveal.computed_results # None =>
          ActiveRun.reveal.current_index
              <= Len(ActiveRun.reveal.computed_results[1].per_question)
    /\ \A t \in Tasks :
          fin[t].at # "idle" /\ Held(t).reveal.computed_results # None =>
              Held(t).reveal.current_index
                  <= Len(Held(t).reveal.computed_results[1].per_question)

\* The entries of an archive have different run ids
OneEntryPerRun(archive) ==
    \A i, j \in DOMAIN archive : archive[i].id = archive[j].id => i = j

\* C34: however the finalizing handlers (reveal_next on the last question,
\* end_reveal_dump, _do_reveal in mode all, end_run_no_reveal) interleave at
\* their awaits, the archive, in memory and in the store, holds at most one
\* entry per run id.
C34_OneArchiveEntryPerRun ==
    /\ OneEntryPerRun(data.archive)
    /\ OneEntryPerRun(remote.doc.archive)

\* C35: when the save_data calls of two handlers of the process overlapped
\* and both have returned, no other writer having written, self.sha is the
\* token of the remote object and the remote document is the document in
\* memory, so that the PUT of the next save_data is accepted.
C35_OverlapLeavesInSync ==
    (/\ \A t \in Tasks : pc[t] = "returned"
     /\ extCount = 0) =>
        /\ sha = remoteSha
        /\ remote = Blob("json", data)
        /\ PutStatuses(remote, remoteSha, [doc |-> data, sha |-> sha])
              = {"ok"}

\* C36: when save_data raised, after its conflicts or on another failure
\* of the store, the change its handler made stays in the document in
\* memory, and the PUT accepted for the save_data of the next action
\* carries that change to the remote store.
C36_RaisedChangeIsKept ==
    pc[FirstTask] = "raised" =>
        /\ data.active = hist[FirstTask].intent.active
        /\ hist[LaterTask].accepted =>
              hist[LaterTask].putDoc.active = hist[FirstTask].intent.active

\* C36 witness: the first save_data raised after its sixth conflict, the
\* call of the later action returned, and the remote document holds the
\* change of the first handler and that of the later one.
C36_Witness ==
    /\ pc[FirstTask] = "raised"
    /\ hist[FirstTask].why = "exhausted"
    /\ pc[LaterTask] = "returned"
    /\ remote.state = "json"
    /\ remote.doc.active = hist[FirstTask].intent.active
    /\ remote.doc.settings = hist[LaterTask].intent.settings

\* The replies of open_submissions that report an error
OpenErrors ==
    {"no_active_run", "cannot_open", "no_questions", "channel_not_found"}

\* C37: when open_submissions answers with an error (no active run, status
\* not setup, no question, announcement channel not found) it has not
\* opened the run: a run that was in setup_suggestions is still in
\* setup_suggestions in memory and in every document written, and the
\* status of the run is in no case changed.
C37_OpenErrorLeavesSetup ==
    \A rid \in KnownRuns, found \in BOOLEAN :
        LET out == open_submissions(rid, found)
            r == run_by_id(rid)
        IN  (out.msg \in OpenErrors /\ r # None) =>
                /\ out.data.active # None
                /\ out.data.active[1].status = r[1].status
                /\ \A i \in DOMAIN out.puts :
                      /\ out.puts[i].active # None
                      /\ out.puts[i].active[1].status = r[1].status

---------------------------------------------------------------------------
(* Claims about the run document *)

\* The document d holds no results for a run that is not yet revealed
NoEarlyResults(d) ==
    (/\ d.active # None
     /\ d.active[1].status \in {"setup_suggestions", "open", "locked"}) =>
        d.active[1].reveal.computed_results = None

\* C38: while the active run is in setup_suggestions, open or locked its
\* reveal.computed_results is null, in memory and in the store; and a step
\* after which the active run has results it did not have before leaves
\* that run in reveal_in_progress.
C38_NoResultsBeforeReveal ==
    [][ /\ NoEarlyResults(data)
        /\ NoEarlyResults(data')
        /\ NoEarlyResults(remote.doc)
        /\ NoEarlyResults(remote'.doc)
        /\ (/\ data.active # None
            /\ data'.active # None
            /\ data'.active[1].id = ActiveRun.id
            /\ ActiveRun.reveal.computed_results = None
            /\ data'.active[1].reveal.computed_results # None) =>
                data'.active[1].status = "reveal_in_progress" ]_vars

\* C38 witness: a locked run was revealed step by step: in memory and in
\* the store it is in reveal_in_progress and has its results.
C38_Witness ==
    /\ Revealing(data.active)
    /\ ActiveRun.reveal.computed_results = Some(compute_results(ActiveRun))
    /\ ActiveRun.reveal.mode = Some("step")
    /\ remote = Blob("json", data)

\* C39: the questions of the active run have different ids, whatever the
\* creations were and however close in time; and remove_question, given
\* the id of a question of the run, removes exactly that one question.
C39_UniqueQuestionIds ==
    data.active # None =>
        /\ \A i, j \in DOMAIN ActiveRun.questions :
              ActiveRun.questions[i].id = ActiveRun.questions[j].id => i = j
        /\ \A q \in Range(ActiveRun.questions) :
              LET out == remove_question(ActiveRun.id, q.id) IN
              out.msg = "removed" =>
                  Len(out.data.active[1].questions)
                      = Len(ActiveRun.questions) - 1

=============================================================================
